---- MODULE Spec2Model ----
(***************************************************************************)
(* Model of src/barberbot.py: the appointment store (tables users and      *)
(* appointments), the two nested ConversationHandlers registered in main() *)
(* and every handler callback they dispatch to.  One action of the model   *)
(* is one update handled by the dispatcher for one user.                   *)
(*                                                                         *)
(* Model of src/main.py and src/maxpy.py, the two channel posters: the     *)
(* post history of PostMemory and the AutomatedChannelManager that the     *)
(* scheduler drives.  The posters and the bot are separate programs; a     *)
(* specification runs one of them and leaves the other as it was started.  *)
(***************************************************************************)
EXTENDS Integers, Sequences, FiniteSets, Bags, TLC

VARIABLES
    users,         \* table users: user_id -> row (PRIMARY KEY user_id)
    appointments,  \* table appointments: sequence of rows, id = position
    conv,          \* conv_handler.conversations: user -> state
    booking,       \* booking_handler.conversations: user -> state
    user_data,     \* context.user_data: user -> dict
    keyboards,     \* user -> bag of the inline keyboards visible in the chat
    now,           \* datetime.datetime.now(), in days since StartDate
    last,          \* the update handled last and what the handler sent
    poster         \* the AutomatedChannelManager of a poster script

vars == <<users, appointments, conv, booking, user_data, keyboards, now, last,
          poster>>

----------------------------------------------------------------------------
(* Bounds of the model. *)

MaxAppointments == 2   \* rows the appointments table may hold
MaxDays == 1           \* days the clock may advance
MaxKeyboards == 1      \* inline-keyboard messages a user keeps in the chat
NumServices == 2       \* services of the catalog a user presses
NumSlots == 1          \* slots of WORKING_HOURS a user presses
NumDates == 1          \* days from StartDate whose date buttons a user presses
StaleKeyboards == 2    \* the same, where a client presses an old message
RenderRows == 2        \* rows of the table when a time keyboard is rendered
RenderDates == 2       \* days from StartDate those rows are dated on
ConfirmRows == 1       \* rows of the table when a confirmation is answered
EntryDates == 2        \* days from StartDate a client books on before re-entry
ForeignRows == 1       \* rows of the table when a client presses an old keyboard
OwnerRows == 3         \* rows of the table the two clients own between them
NumTopics == 6         \* topics of english_topics, "Quiz" being the last
MaxPosts == 3          \* messages a poster sends to its channel
HashSpace == 256       \* values of a content hash
NearFull == 2          \* entries a drawn post history lacks to its limits

----------------------------------------------------------------------------
(* Configuration constants of barberbot.py. *)

CHANNEL_USERNAME == "@barberuzpro"

\* chat_id of bot.send_message: the channel's name or a user's id.
ChannelChat == [ username |-> CHANNEL_USERNAME, id |-> 0 ]
UserChat(id) == [ username |-> "", id |-> id ]

MY_LIMIT == 10
ALL_LIMIT == 20

MAIN_MENU == 0
SELECTING_SERVICE == 1
CHOOSING_DATE == 2
CHOOSING_TIME == 3
CONFIRMING_APPOINTMENT == 4
CONTACT_INFO == 5
ADMIN_PANEL == 6
ADMIN_VIEW_APPOINTMENTS == 7
ADMIN_VIEW_CLIENTS == 8
HANDLING_EXISTING_APPOINTMENT == 9
END == -1

\* class ServiceType, in definition order.
ServiceType ==
    << "HaircutforElder", "HaircutforChildren", "HairStraightening",
       "BeardTrim", "HairWash", "Combo", "HairColoring", "BeardColoring",
       "FaceMask", "HairCurling", "HairBalding", "HairStylingforBridgeGroom" >>

ServiceNames == { ServiceType[i] : i \in 1..Len(ServiceType) }

SERVICE_PRICES ==
    [ s \in ServiceNames |->
        CASE s = "HaircutforElder" -> 40000
          [] s = "HaircutforChildren" -> 30000
          [] s = "HairStraightening" -> 25000
          [] s = "BeardTrim" -> 25000
          [] s = "HairWash" -> 25000
          [] s = "Combo" -> 80000
          [] s = "HairColoring" -> 35000
          [] s = "BeardColoring" -> 35000
          [] s = "FaceMask" -> 25000
          [] s = "HairCurling" -> 30000
          [] s = "HairBalding" -> 20000
          [] s = "HairStylingforBridgeGroom" -> 300000 ]

\* WORKING_HOURS: "09:00" .. "20:00"; a slot "HH:00" is written as its hour.
WORKING_HOURS == << 9, 10, 11, 12, 13, 14, 15, 16, 17, 18, 19, 20 >>

ADMIN_IDS == << 123456789 >>

AdminSet == { ADMIN_IDS[i] : i \in 1..Len(ADMIN_IDS) }

----------------------------------------------------------------------------
(* Strings.  A string the bot stores or compares is a record               *)
(* [tag, arg]: tag names its fixed text and arg holds the numbers printed   *)
(* in it.  "d.m.Y" is strftime("%d.%m.%Y") with arg <<day, month, year>>;  *)
(* "H:M" is a slot "HH:00" with arg <<hour>>; every other tag is the       *)
(* callback_data of a button, e.g. "date_" with arg <<d, m, y>> is the     *)
(* string "date_dd.mm.yyyy".                                               *)

Str(tag, arg) == [ tag |-> tag, arg |-> arg ]

DateStr(d) == Str("d.m.Y", d)
TimeStr(h) == Str("H:M", << h >>)

\* Position of a service name among the names in byte order, which is the
\* order of the strings "service_<name>".
ServiceNameRank(i) ==
    CASE ServiceType[i] = "BeardColoring" -> 1
      [] ServiceType[i] = "BeardTrim" -> 2
      [] ServiceType[i] = "Combo" -> 3
      [] ServiceType[i] = "FaceMask" -> 4
      [] ServiceType[i] = "HairBalding" -> 5
      [] ServiceType[i] = "HairColoring" -> 6
      [] ServiceType[i] = "HairCurling" -> 7
      [] ServiceType[i] = "HairStraightening" -> 8
      [] ServiceType[i] = "HairStylingforBridgeGroom" -> 9
      [] ServiceType[i] = "HairWash" -> 10
      [] ServiceType[i] = "HaircutforChildren" -> 11
      [] ServiceType[i] = "HaircutforElder" -> 12

\* Byte order of the fixed texts: a digit sorts before every letter.
TagRank(tag) ==
    CASE tag = "d.m.Y" -> 0
      [] tag = "H:M" -> 0
      [] tag = "back_to_appointments" -> 1
      [] tag = "back_to_dates" -> 2
      [] tag = "back_to_main" -> 3
      [] tag = "back_to_services" -> 4
      [] tag = "cancel" -> 5
      [] tag = "cancel_appointment" -> 6
      [] tag = "confirm" -> 7
      [] tag = "date_" -> 8
      [] tag = "edit_appointment_" -> 9
      [] tag = "new_appointment" -> 10
      [] tag = "service_" -> 11
      [] tag = "time_" -> 12
      [] tag = "unavailable" -> 13

\* The string as a tuple of numbers whose lexicographic order is the byte
\* order of the string (fields are zero padded, so of fixed width).
SortKey(s) ==
    << TagRank(s.tag) >> \o
        (IF s.tag = "service_" THEN << ServiceNameRank(s.arg[1]) >> ELSE s.arg)

RECURSIVE LexLess(_, _)
LexLess(a, b) ==
    IF b = << >> THEN FALSE
    ELSE IF a = << >> THEN TRUE
    ELSE IF Head(a) # Head(b) THEN Head(a) < Head(b)
    ELSE LexLess(Tail(a), Tail(b))

\* SQLite's comparison of two TEXT values (BINARY collation).
TextLess(s, t) == LexLess(SortKey(s), SortKey(t))
TextGeq(s, t) == ~TextLess(s, t)

\* str.replace(prefix, ""): the prefix occurs only at the head of the
\* callback_data of its own button kind.
Replace(data, prefix) ==
    IF data.tag = prefix
    THEN CASE prefix = "date_" -> Str("d.m.Y", data.arg)
           [] prefix = "time_" -> Str("H:M", data.arg)
           [] OTHER -> data
    ELSE data

----------------------------------------------------------------------------
(* The calendar: datetime arithmetic and strftime("%d.%m.%Y"). *)

StartDate == << 30, 6, 2025 >>

IsLeap(y) == (y % 4 = 0 /\ y % 100 # 0) \/ y % 400 = 0

DaysInMonth(m, y) ==
    CASE m \in {4, 6, 9, 11} -> 30
      [] m = 2 -> IF IsLeap(y) THEN 29 ELSE 28
      [] OTHER -> 31

NextDay(d) ==
    IF d[1] < DaysInMonth(d[2], d[3]) THEN << d[1] + 1, d[2], d[3] >>
    ELSE IF d[2] < 12 THEN << 1, d[2] + 1, d[3] >>
    ELSE << 1, 1, d[3] + 1 >>

RECURSIVE AddDays(_, _)
AddDays(d, n) == IF n = 0 THEN d ELSE AddDays(NextDay(d), n - 1)

\* (today + timedelta(days=i)).strftime("%d.%m.%Y") on day `day` of the run.
Strftime(day) == DateStr(AddDays(StartDate, day))

\* Calendar order of two dates <<d, m, y>>.
CalendarLess(a, b) == LexLess(<< a[3], a[2], a[1] >>, << b[3], b[2], b[1] >>)

----------------------------------------------------------------------------
(* Dictionaries (Python dict, sqlite table keyed by its primary key). *)

EmptyDict == [ k \in {} |-> 0 ]
Put(d, k, v) == (k :> v) @@ d
Remove(d, k) == [ x \in DOMAIN d \ {k} |-> d[x] ]

NULL == "NULL"

----------------------------------------------------------------------------
(* The identities that talk to the bot and what the transport sends. *)

UserIds == { ADMIN_IDS[1], 1001, 1002 }

\* update.effective_user: the display fields Telegram supplies for a user.
EffectiveUser(u) ==
    [ id |-> u, username |-> << "username", u >>,
      first_name |-> << "first_name", u >>, last_name |-> << "last_name", u >> ]

\* Texts of the reply-keyboard buttons and of the commands.
NEW_BOOKING == "Yangi buyurtma berish"
MY_APPOINTMENTS == "Mening buyurtmalarim"
CONTACT == "Aloqa"
ADMIN_PANEL_TEXT == "Admin panel"
TODAY_APPOINTMENTS == "Bugungi buyurtmalar"
ALL_APPOINTMENTS == "Barcha buyurtmalar"
CLIENT_LIST == "Mijozlar ro'yxati"
BACK_TO_MENU == "Asosiy menyu"

\* Texts a user types at the phone prompt, with what Python computes of
\* them: text.strip(), startswith("+") and len().
PhoneTexts == { "+998901234567", " +998901234567 ", "998901234567", "+99890123" }

Strip(t) == IF t = " +998901234567 " THEN "+998901234567" ELSE t

\* Mutant of StartsWithPlus: the first character is not looked at.
StartsWithAnything(t) == t = t

StartsWithPlus(t) == t \in { "+998901234567", "+99890123" }

StrLen(t) ==
    CASE t = "+998901234567" -> 13
      [] t = " +998901234567 " -> 15
      [] t = "998901234567" -> 12
      [] t = "+99890123" -> 9
      [] OTHER -> 0

\* contact.phone_number of a shared contact (Telegram sends it without "+").
ContactPhones == { "998901234567" }

NoData == Str("", << >>)

Command(c) == [ kind |-> "command", text |-> c, data |-> NoData ]
Text(t) == [ kind |-> "text", text |-> t, data |-> NoData ]
Contact(p) == [ kind |-> "contact", text |-> p, data |-> NoData ]
Callback(d) == [ kind |-> "callback", text |-> "", data |-> d ]

----------------------------------------------------------------------------
(* Inline keyboards: a markup is a sequence of rows of buttons. *)

Button(text, data) == [ text |-> text, callback_data |-> data ]

\* The loops "if i % k == 0 and i > 0: keyboard.append(row); row = []"
\* followed by "if row: keyboard.append(row)": rows of k buttons.
Rows(buttons, k) ==
    [ r \in 1..((Len(buttons) + k - 1) \div k) |->
        SubSeq(buttons, (r - 1) * k + 1,
               IF r * k < Len(buttons) THEN r * k ELSE Len(buttons)) ]

ServiceKeyboard ==
    Rows([ i \in 1..Len(ServiceType) |->
             Button(<< ServiceType[i], SERVICE_PRICES[ServiceType[i]] >>,
                    Str("service_", << i >>)) ], 2)
    \o << << Button(<< "Orqaga" >>, Str("back_to_main", << >>)) >> >>

ExistingKeyboard(appt_id) ==
    << << Button(<< "Yangi buyurtma berish" >>, Str("new_appointment", << >>)) >>,
       << Button(<< "Mavjud buyurtmani tahrirlash" >>,
                 Str("edit_appointment_", << appt_id >>)) >>,
       << Button(<< "Orqaga" >>, Str("back_to_main", << >>)) >> >>

DateKeyboard(today) ==
    [ i \in 1..7 |->
        << Button(<< Strftime(today + i - 1) >>,
                  Str("date_", AddDays(StartDate, today + i - 1))) >> ]
    \o << << Button(<< "Orqaga" >>, Str("back_to_services", << >>)) >> >>

TimeKeyboard(booked_times) ==
    Rows([ i \in 1..Len(WORKING_HOURS) |->
             IF TimeStr(WORKING_HOURS[i]) \in booked_times
             THEN Button(<< "unavailable", WORKING_HOURS[i] >>,
                         Str("unavailable", << >>))
             ELSE Button(<< "available", WORKING_HOURS[i] >>,
                         Str("time_", << WORKING_HOURS[i] >>)) ], 3)
    \o << << Button(<< "Orqaga" >>, Str("back_to_dates", << >>)) >> >>

ConfirmKeyboard ==
    << << Button(<< "Tasdiqlash" >>, Str("confirm", << >>)),
          Button(<< "Bekor qilish" >>, Str("cancel", << >>)) >> >>

ViewKeyboard ==
    << << Button(<< "Buyurtmani bekor qilish" >>, Str("cancel_appointment", << >>)) >>,
       << Button(<< "Orqaga" >>, Str("back_to_appointments", << >>)) >> >>

NoMarkup == << >>

\* The callback_data a user can send by pressing a button of the markup.
Buttons(markup) ==
    UNION { { markup[r][c].callback_data : c \in 1..Len(markup[r]) } :
            r \in 1..Len(markup) }

----------------------------------------------------------------------------
(* The appointment store: the SQL statements of the handlers. *)

AppointmentIds == 1..Len(appointments)

\* INSERT INTO users (user_id, username, first_name, last_name,
\* registration_date): phone_number is left NULL.
UserRow(user, registration_date) ==
    [ username |-> user.username, first_name |-> user.first_name,
      last_name |-> user.last_name, phone_number |-> NULL,
      registration_date |-> registration_date ]

\* Mutant of AppointmentRow: the price column is not bound to the price of
\* the flow.
AppointmentRowPriceDropped(user_id, service, price, date, time) ==
    [ user_id |-> user_id, service |-> service, price |-> 0,
      date |-> date, time |-> time, status |-> "scheduled" ]

\* INSERT INTO appointments (...) VALUES (..., "scheduled", now).  The column
\* created_at is written here and read nowhere; the model leaves it out.
AppointmentRow(user_id, service, price, date, time) ==
    [ user_id |-> user_id, service |-> service, price |-> price,
      date |-> date, time |-> time, status |-> "scheduled" ]

\* ORDER BY date, time: row i sorts before row j.
OrderedBefore(i, j) ==
    \/ TextLess(appointments[i].date, appointments[j].date)
    \/ /\ appointments[i].date = appointments[j].date
       /\ TextLess(appointments[i].time, appointments[j].time)

\* WHERE user_id = ? AND status = 'scheduled' AND date >= ?
ActiveAppointments(user_id, current_date) ==
    { i \in AppointmentIds :
        /\ appointments[i].user_id = user_id
        /\ appointments[i].status = "scheduled"
        /\ TextGeq(appointments[i].date, current_date) }

\* Mutant of ExistingAppointment: the query has no user_id condition.
ExistingAppointmentOfAnyUser(user_id, current_date) ==
    { i \in AppointmentIds :
        /\ appointments[i].status = "scheduled"
        /\ TextGeq(appointments[i].date, current_date)
        /\ \A j \in AppointmentIds :
              ( /\ appointments[j].status = "scheduled"
                /\ TextGeq(appointments[j].date, current_date) )
              => ~OrderedBefore(j, i) }

\* ... ORDER BY date, time LIMIT 1: the rows fetchone() may return (rows that
\* tie on date and time come in an order SQL leaves open).
ExistingAppointment(user_id, current_date) ==
    { i \in ActiveAppointments(user_id, current_date) :
        \A j \in ActiveAppointments(user_id, current_date) : ~OrderedBefore(j, i) }

\* ... ORDER BY date DESC, time DESC LIMIT n over the rows `ids`: the
\* sequences of ids fetchall() may return (rows that tie on date and time
\* come in an order SQL leaves open).
RecentFirst(ids, n) ==
    LET k == IF Cardinality(ids) < n THEN Cardinality(ids) ELSE n IN
    { SubSeq(f, 1, k) :
        f \in { g \in [ 1..Cardinality(ids) -> ids ] :
                  /\ \A a, b \in 1..Cardinality(ids) : a # b => g[a] # g[b]
                  /\ \A a, b \in 1..Cardinality(ids) :
                        a < b => ~OrderedBefore(g[a], g[b]) } }

\* view_my_appointments: ... WHERE user_id = ? ORDER BY date DESC, time DESC
\* LIMIT 10
MyAppointments(user_id) ==
    RecentFirst({ i \in AppointmentIds : appointments[i].user_id = user_id },
                MY_LIMIT)

\* view_all_appointments: ... JOIN users u ON a.user_id = u.user_id ORDER BY
\* a.date DESC, a.time DESC LIMIT 20
AllAppointments ==
    RecentFirst({ i \in AppointmentIds : appointments[i].user_id \in DOMAIN users },
                ALL_LIMIT)

\* Mutant of BookedTimes: the query does not look at the status.
BookedTimesOfAnyStatus(selected_date) ==
    { appointments[i].time :
        i \in { j \in AppointmentIds : appointments[j].date = selected_date } }

\* Mutant of BookedTimes: the query keeps the canceled rows instead of the
\* scheduled ones.
BookedTimesOfCanceled(selected_date) ==
    { appointments[i].time :
        i \in { j \in AppointmentIds : /\ appointments[j].date = selected_date
                                       /\ appointments[j].status = "canceled" } }

\* SELECT time FROM appointments WHERE date = ? AND status = 'scheduled'
BookedTimes(selected_date) ==
    { appointments[i].time :
        i \in { j \in AppointmentIds : /\ appointments[j].date = selected_date
                                       /\ appointments[j].status = "scheduled" } }

\* Mutant of CancelRow: the UPDATE has no WHERE clause.
CancelEveryRow(appt_id) ==
    [ i \in AppointmentIds |-> [ appointments[i] EXCEPT !.status = "canceled" ] ]

\* Mutant of CancelRow: the UPDATE flips the status of the row, so that a
\* canceled row becomes scheduled again.
CancelRowToggling(appt_id) ==
    [ i \in AppointmentIds |->
        IF i = appt_id
        THEN [ appointments[i] EXCEPT
                 !.status = IF @ = "scheduled" THEN "canceled" ELSE "scheduled" ]
        ELSE appointments[i] ]

\* UPDATE appointments SET status = 'canceled' WHERE id = ?
CancelRow(appt_id) ==
    [ i \in AppointmentIds |->
        IF i = appt_id THEN [ appointments[i] EXCEPT !.status = "canceled" ]
        ELSE appointments[i] ]

\* Mutant of HasPhone: the stored phone number is not looked at.
HasPhoneUnchecked(u) == u \in DOMAIN users

\* SELECT phone_number FROM users WHERE user_id = ?, then
\* "not user_data or not user_data[0]".
HasPhone(u) == u \in DOMAIN users /\ users[u].phone_number # NULL

\* Mutant of LastRowId: the id is read before the INSERT is executed.
LastRowIdBeforeInsert(table) == Len(table) - 1

\* cursor.lastrowid after the INSERT and conn.commit() have made `table` of
\* the appointments table: the id of the row written last.
LastRowId(table) == Len(table)

\* UPDATE users SET phone_number = ? WHERE user_id = ?
SetPhone(u, phone_number) ==
    IF u \in DOMAIN users
    THEN [ users EXCEPT ![u].phone_number = phone_number ]
    ELSE users

----------------------------------------------------------------------------
(* Dispatch: ConversationHandler.check_update for the two handlers that    *)
(* main() registers.  A handler name of "" means no handler takes the       *)
(* update.                                                                  *)

BookingStates ==
    { SELECTING_SERVICE, CHOOSING_DATE, CHOOSING_TIME, CONFIRMING_APPOINTMENT,
      CONTACT_INFO, HANDLING_EXISTING_APPOINTMENT }

\* booking_handler: entry_points, states, fallbacks.
BookingHandler(u, upd) ==
    IF u \notin DOMAIN booking
    THEN IF upd.kind = "text" /\ upd.text = NEW_BOOKING THEN "start_booking" ELSE ""
    ELSE CASE booking[u] = SELECTING_SERVICE /\ upd.kind = "callback" -> "select_service"
           [] booking[u] = CHOOSING_DATE /\ upd.kind = "callback" -> "choose_date"
           [] booking[u] = CHOOSING_TIME /\ upd.kind = "callback" -> "choose_time"
           [] booking[u] = CONFIRMING_APPOINTMENT /\ upd.kind = "callback"
                -> "confirm_appointment"
           [] booking[u] = CONTACT_INFO /\ upd.kind \in { "contact", "text" }
                -> "contact_info"
           [] booking[u] = HANDLING_EXISTING_APPOINTMENT /\ upd.kind = "callback"
                -> "handle_existing_appointment"
           [] OTHER -> IF upd.kind = "command" /\ upd.text = "cancel"
                       THEN "cancel" ELSE ""

\* conv_handler: entry_points, states (booking_handler is the first handler
\* of MAIN_MENU), fallbacks.  The result is <<handler that keeps the state,
\* callback>>.
Route(u, upd) ==
    IF u \notin DOMAIN conv
    THEN IF upd.kind = "command" /\ upd.text = "start"
         THEN << "conv", "start" >> ELSE << "", "" >>
    ELSE CASE conv[u] = MAIN_MENU /\ BookingHandler(u, upd) # ""
                -> << "booking", BookingHandler(u, upd) >>
           [] conv[u] = MAIN_MENU /\ BookingHandler(u, upd) = ""
              /\ upd.kind = "text" /\ upd.text = MY_APPOINTMENTS
                -> << "conv", "view_my_appointments" >>
           [] conv[u] = MAIN_MENU /\ BookingHandler(u, upd) = ""
              /\ upd.kind = "text" /\ upd.text = CONTACT
                -> << "conv", "main_menu" >>
           [] conv[u] = MAIN_MENU /\ BookingHandler(u, upd) = ""
              /\ upd.kind = "text" /\ upd.text = ADMIN_PANEL_TEXT
                -> << "conv", "admin_panel" >>
           [] conv[u] \in { ADMIN_PANEL, ADMIN_VIEW_APPOINTMENTS, ADMIN_VIEW_CLIENTS }
              /\ upd.kind = "text"
                -> << "conv", "admin_actions" >>
           [] OTHER -> IF upd.kind = "command" /\ upd.text = "cancel"
                       THEN << "conv", "cancel" >> ELSE << "", "" >>

\* ConversationHandler.handle_update: the state the callback returned is
\* stored; booking_handler maps END to the parent's MAIN_MENU
\* (map_to_parent) and keeps every other value, MAIN_MENU included, as its
\* own state.
Return(level, u, new_state) ==
    IF level = "booking"
    THEN IF new_state = END
         THEN /\ booking' = Remove(booking, u)
              /\ conv' = Put(conv, u, MAIN_MENU)
         ELSE /\ booking' = Put(booking, u, new_state)
              /\ conv' = conv
    ELSE /\ booking' = booking
         /\ conv' = IF new_state = END THEN Remove(conv, u)
                    ELSE Put(conv, u, new_state)

\* What the last update was, the appointments table as its callback found
\* it, and what the callback sent: the reply to the user (a label of the
\* message text), the inline keyboard of that reply, the chats a notice was
\* sent to in the order of the sends, the chats among them whose send
\* failed, the appointment id printed in the notice (0 without a notice),
\* whether the callback raised because Telegram did not take the reply to
\* the user, the ids of the rows listed in the reply in the order of the
\* listing, and whether the callback raised.
Outcome(u, handler, upd, reply, markup, sent, raised) ==
    [ user |-> u, handler |-> handler, kind |-> upd.kind, text |-> upd.text,
      data |-> upd.data, store |-> appointments, reply |-> reply,
      markup |-> markup, sent |-> sent, failed |-> {}, notice |-> 0,
      undelivered |-> FALSE, listing |-> << >>, raised |-> raised ]

\* An exception leaves both conversation states as they were; error_handler
\* logs it and replies to the user.
Raise(u, handler, upd) ==
    /\ UNCHANGED << conv, booking >>
    /\ last' = Outcome(u, handler, upd, "Xatolik yuz berdi", NoMarkup, << >>, TRUE)

----------------------------------------------------------------------------
(* The chat: the messages with an inline keyboard that a user can still    *)
(* press.  A keyboard is kept as the set of its callback_data; two         *)
(* messages may show the same keyboard.                                    *)

\* query.edit_message_text(text, reply_markup=markup) on the pressed message.
EditMessage(u, kb, markup) ==
    keyboards' = [ keyboards EXCEPT ![u] =
        (@ (-) SetToBag({kb}))
          (+) (IF markup = NoMarkup THEN EmptyBag ELSE SetToBag({ Buttons(markup) })) ]

\* query.message.delete()
DeleteMessage(u, kb) == keyboards' = [ keyboards EXCEPT ![u] = @ (-) SetToBag({kb}) ]

\* update.message.reply_text(text, reply_markup=InlineKeyboardMarkup(...))
ReplyMarkup(u, markup) ==
    keyboards' = [ keyboards EXCEPT ![u] = @ (+) SetToBag({ Buttons(markup) }) ]

----------------------------------------------------------------------------
(* The handler callbacks. *)

\* Mutant of start: the row is written without the SELECT that looks for it
\* (INSERT OR REPLACE).
start_replacing_row(u) ==
    LET upd == Command("start") IN
    /\ Route(u, upd) = << "conv", "start" >>
    /\ users' = Put(Remove(users, u), u, UserRow(EffectiveUser(u), now))
    /\ Return("conv", u, MAIN_MENU)
    /\ last' = Outcome(u, "start", upd, "Assalomu alaykum", NoMarkup, << >>, FALSE)
    /\ UNCHANGED << appointments, user_data, keyboards, now >>

\* start (lines 105-147)
start(u) ==
    LET upd == Command("start") IN
    /\ Route(u, upd) = << "conv", "start" >>
    /\ users' = IF u \in DOMAIN users THEN users
                ELSE Put(users, u, UserRow(EffectiveUser(u), now))
    /\ Return("conv", u, MAIN_MENU)
    /\ last' = Outcome(u, "start", upd, "Assalomu alaykum", NoMarkup, << >>, FALSE)
    /\ UNCHANGED << appointments, user_data, keyboards, now >>

\* main_menu (lines 150-170), reached only for the contact button.
main_menu(u) ==
    LET upd == Text(CONTACT) IN
    /\ Route(u, upd) = << "conv", "main_menu" >>
    /\ Return("conv", u, MAIN_MENU)
    /\ last' = Outcome(u, "main_menu", upd, "Bizning ma'lumotlar", NoMarkup, << >>, FALSE)
    /\ UNCHANGED << users, appointments, user_data, keyboards, now >>

\* start_booking (lines 173-247) as the entry point of booking_handler.
start_booking(u) ==
    LET upd == Text(NEW_BOOKING)
        existing_appointment == ExistingAppointment(u, Strftime(now))
    IN
    /\ Route(u, upd) = << "booking", "start_booking" >>
    /\ IF existing_appointment # {}
       THEN \E appt_id \in existing_appointment :
              /\ ReplyMarkup(u, ExistingKeyboard(appt_id))
              /\ Return("booking", u, HANDLING_EXISTING_APPOINTMENT)
              /\ last' = Outcome(u, "start_booking", upd,
                                 "Sizda allaqachon buyurtma mavjud",
                                 ExistingKeyboard(appt_id), << >>, FALSE)
       ELSE /\ ReplyMarkup(u, ServiceKeyboard)
            /\ Return("booking", u, SELECTING_SERVICE)
            /\ last' = Outcome(u, "start_booking", upd, "Xizmat turini tanlang",
                               ServiceKeyboard, << >>, FALSE)
    /\ UNCHANGED << users, appointments, user_data, now >>

\* Mutant of select_service: a price that the scratch already holds is kept
\* when a service is selected.
select_service_keeping_price(u, kb, data) ==
    LET upd == Callback(data) IN
    /\ Route(u, upd) = << "booking", "select_service" >>
    /\ IF data.tag = "back_to_main"
       THEN /\ DeleteMessage(u, kb)
            /\ Return("booking", u, MAIN_MENU)
            /\ last' = Outcome(u, "select_service", upd, "Asosiy menyu",
                               NoMarkup, << >>, FALSE)
            /\ UNCHANGED user_data
       ELSE IF data.tag # "service_"
       THEN /\ Raise(u, "select_service", upd)
            /\ UNCHANGED << user_data, keyboards >>
       ELSE /\ user_data' = [ user_data EXCEPT ![u] =
                Put(Put(@, "selected_service", ServiceType[data.arg[1]]),
                    "service_price",
                    IF "service_price" \in DOMAIN @ THEN @["service_price"]
                    ELSE SERVICE_PRICES[ServiceType[data.arg[1]]]) ]
            /\ EditMessage(u, kb, DateKeyboard(now))
            /\ Return("booking", u, CHOOSING_DATE)
            /\ last' = Outcome(u, "select_service", upd, "Endi sana tanlang",
                               DateKeyboard(now), << >>, FALSE)
    /\ UNCHANGED << users, appointments, now >>

\* Mutant of select_service: the selection is written to one scratch that
\* all users share.
select_service_shared_scratch(u, kb, data) ==
    LET upd == Callback(data) IN
    /\ Route(u, upd) = << "booking", "select_service" >>
    /\ IF data.tag = "back_to_main"
       THEN /\ DeleteMessage(u, kb)
            /\ Return("booking", u, MAIN_MENU)
            /\ last' = Outcome(u, "select_service", upd, "Asosiy menyu",
                               NoMarkup, << >>, FALSE)
            /\ UNCHANGED user_data
       ELSE IF data.tag # "service_"
       THEN /\ Raise(u, "select_service", upd)
            /\ UNCHANGED << user_data, keyboards >>
       ELSE /\ user_data' = [ v \in DOMAIN user_data |->
                Put(Put(user_data[v], "selected_service", ServiceType[data.arg[1]]),
                    "service_price", SERVICE_PRICES[ServiceType[data.arg[1]]]) ]
            /\ EditMessage(u, kb, DateKeyboard(now))
            /\ Return("booking", u, CHOOSING_DATE)
            /\ last' = Outcome(u, "select_service", upd, "Endi sana tanlang",
                               DateKeyboard(now), << >>, FALSE)
    /\ UNCHANGED << users, appointments, now >>

\* select_service (lines 250-294)
select_service(u, kb, data) ==
    LET upd == Callback(data) IN
    /\ Route(u, upd) = << "booking", "select_service" >>
    /\ IF data.tag = "back_to_main"
       THEN /\ DeleteMessage(u, kb)
            /\ Return("booking", u, MAIN_MENU)
            /\ last' = Outcome(u, "select_service", upd, "Asosiy menyu",
                               NoMarkup, << >>, FALSE)
            /\ UNCHANGED user_data
       ELSE IF data.tag # "service_"
       THEN \* ServiceType[service_name] raises KeyError
            /\ Raise(u, "select_service", upd)
            /\ UNCHANGED << user_data, keyboards >>
       ELSE /\ user_data' = [ user_data EXCEPT ![u] =
                Put(Put(@, "selected_service", ServiceType[data.arg[1]]),
                    "service_price", SERVICE_PRICES[ServiceType[data.arg[1]]]) ]
            /\ EditMessage(u, kb, DateKeyboard(now))
            /\ Return("booking", u, CHOOSING_DATE)
            /\ last' = Outcome(u, "select_service", upd, "Endi sana tanlang",
                               DateKeyboard(now), << >>, FALSE)
    /\ UNCHANGED << users, appointments, now >>

\* choose_date (lines 297-349).  "back_to_services" calls start_booking,
\* which replies through update.message: that is None for a button press.
choose_date(u, kb, data) ==
    LET upd == Callback(data)
        selected_date == Replace(data, "date_")
    IN
    /\ Route(u, upd) = << "booking", "choose_date" >>
    /\ IF data.tag = "back_to_services"
       THEN /\ Raise(u, "choose_date", upd)
            /\ UNCHANGED << user_data, keyboards >>
       ELSE /\ user_data' = [ user_data EXCEPT ![u] =
                Put(@, "selected_date", selected_date) ]
            /\ EditMessage(u, kb, TimeKeyboard(BookedTimes(selected_date)))
            /\ Return("booking", u, CHOOSING_TIME)
            /\ last' = Outcome(u, "choose_date", upd, "Endi vaqtni tanlang",
                               TimeKeyboard(BookedTimes(selected_date)), << >>, FALSE)
    /\ UNCHANGED << users, appointments, now >>

\* choose_time (lines 352-416)
choose_time(u, kb, data) ==
    LET upd == Callback(data)
        selected_time == Replace(data, "time_")
    IN
    /\ Route(u, upd) = << "booking", "choose_time" >>
    /\ IF data.tag = "back_to_dates"
       THEN /\ IF "selected_service" \in DOMAIN user_data[u]
               THEN /\ EditMessage(u, kb, DateKeyboard(now))
                    /\ Return("booking", u, CHOOSING_DATE)
                    /\ last' = Outcome(u, "choose_time", upd, "Endi sana tanlang",
                                       DateKeyboard(now), << >>, FALSE)
               ELSE /\ Raise(u, "choose_time", upd)
                    /\ UNCHANGED keyboards
            /\ UNCHANGED user_data
       ELSE IF data.tag = "unavailable"
       THEN /\ Return("booking", u, CHOOSING_TIME)
            /\ last' = Outcome(u, "choose_time", upd, "Bu vaqt band!",
                               NoMarkup, << >>, FALSE)
            /\ UNCHANGED << user_data, keyboards >>
       ELSE /\ user_data' = [ user_data EXCEPT ![u] =
                Put(@, "selected_time", selected_time) ]
            /\ IF { "selected_service", "selected_date", "service_price" }
                     \subseteq DOMAIN user_data[u]
               THEN /\ EditMessage(u, kb, ConfirmKeyboard)
                    /\ Return("booking", u, CONFIRMING_APPOINTMENT)
                    /\ last' = Outcome(u, "choose_time", upd, "Tasdiqlaysizmi?",
                                       ConfirmKeyboard, << >>, FALSE)
               ELSE /\ Raise(u, "choose_time", upd)
                    /\ UNCHANGED keyboards
    /\ UNCHANGED << users, appointments, now >>

\* The chats save_appointment sends the notice of a booking to, in the
\* order of the sends: the channel, then "for admin_id in ADMIN_IDS".
Recipients ==
    << ChannelChat >> \o [ i \in 1..Len(ADMIN_IDS) |-> UserChat(ADMIN_IDS[i]) ]

\* The sends made when the sends to `failed` raise and the first exception
\* is not caught: the sends up to the first that fails.
RECURSIVE UpToFailure(_, _)
UpToFailure(chats, failed) ==
    IF chats = << >> THEN << >>
    ELSE IF Head(chats) \in failed THEN << Head(chats) >>
    ELSE << Head(chats) >> \o UpToFailure(Tail(chats), failed)

\* save_appointment from line 540 on when Telegram does not take the reply
\* to the booker: edit_message_text or reply_text raises after the commit,
\* before the sends of the notice and before user_data.clear().  For a
\* button press the first call may have edited the message before the
\* second raised.
ReplyUndelivered(u, handler, upd, kb) ==
    /\ \/ UNCHANGED keyboards
       \/ upd.kind = "callback" /\ EditMessage(u, kb, NoMarkup)
    /\ UNCHANGED << user_data, conv, booking >>
    /\ last' = [ Outcome(u, handler, upd, "Xatolik yuz berdi", NoMarkup,
                         << >>, TRUE)
                   EXCEPT !.undelivered = TRUE ]

\* Mutant of save_appointment: the sends are not wrapped in try/except, so
\* the first failure ends the handler.
save_appointment_uncaught(u, handler, upd, kb) ==
    IF { "selected_service", "selected_date", "selected_time", "service_price" }
         \subseteq DOMAIN user_data[u]
    THEN /\ appointments' = Append(appointments,
                AppointmentRow(u, user_data[u]["selected_service"],
                               user_data[u]["service_price"],
                               user_data[u]["selected_date"],
                               user_data[u]["selected_time"]))
         /\ \/ /\ IF upd.kind = "callback" THEN EditMessage(u, kb, NoMarkup)
                  ELSE UNCHANGED keyboards
               /\ \E failed \in SUBSET { Recipients[i] : i \in 1..Len(Recipients) } :
                     IF failed = {}
                     THEN /\ user_data' = [ user_data EXCEPT ![u] = EmptyDict ]
                          /\ Return("booking", u, END)
                          /\ last' = Outcome(u, handler, upd,
                                             "Buyurtmangiz muvaffaqiyatli saqlandi",
                                             NoMarkup, Recipients, FALSE)
                     ELSE /\ UNCHANGED << user_data, conv, booking >>
                          /\ last' = [ Outcome(u, handler, upd, "Xatolik yuz berdi",
                                               NoMarkup,
                                               UpToFailure(Recipients, failed), TRUE)
                                         EXCEPT !.failed = failed ]
            \/ ReplyUndelivered(u, handler, upd, kb)
    ELSE /\ Raise(u, handler, upd)
         /\ UNCHANGED << appointments, user_data, keyboards >>

\* save_appointment (lines 493-580), called by confirm_appointment with the
\* pressed message kb and by contact_info with kb = {} (a text message).
\* It fixes every variable but users, which the caller sets.  The reply to
\* the booker may raise, which ends the handler; each bot.send_message may
\* raise, and "except Exception" logs it and goes on.
save_appointment(u, handler, upd, kb) ==
    IF { "selected_service", "selected_date", "selected_time", "service_price" }
         \subseteq DOMAIN user_data[u]
    THEN /\ appointments' = Append(appointments,
                AppointmentRow(u, user_data[u]["selected_service"],
                               user_data[u]["service_price"],
                               user_data[u]["selected_date"],
                               user_data[u]["selected_time"]))
         /\ \/ /\ IF upd.kind = "callback" THEN EditMessage(u, kb, NoMarkup)
                  ELSE UNCHANGED keyboards
               /\ user_data' = [ user_data EXCEPT ![u] = EmptyDict ]
               /\ Return("booking", u, END)
               /\ \E failed \in SUBSET { Recipients[i] : i \in 1..Len(Recipients) } :
                     last' = [ Outcome(u, handler, upd,
                                       "Buyurtmangiz muvaffaqiyatli saqlandi",
                                       NoMarkup, Recipients, FALSE)
                                 EXCEPT !.failed = failed,
                                        !.notice = LastRowId(appointments') ]
            \/ ReplyUndelivered(u, handler, upd, kb)
    ELSE \* context.user_data[...] raises KeyError before the INSERT
         /\ Raise(u, handler, upd)
         /\ UNCHANGED << appointments, user_data, keyboards >>

\* Mutant of confirm_appointment: the "cancel" button is not told apart
\* from "confirm".
confirm_appointment_cancel_ignored(u, kb, data) ==
    LET upd == Callback(data) IN
    /\ Route(u, upd) = << "booking", "confirm_appointment" >>
    /\ IF ~HasPhone(u)
       THEN /\ EditMessage(u, kb, NoMarkup)
            /\ Return("booking", u, CONTACT_INFO)
            /\ last' = Outcome(u, "confirm_appointment", upd,
                               "telefon raqamingizni yuboring", NoMarkup, << >>, FALSE)
            /\ UNCHANGED << appointments, user_data >>
       ELSE save_appointment(u, "confirm_appointment", upd, kb)
    /\ UNCHANGED << users, now >>

\* confirm_appointment (lines 419-453)
confirm_appointment(u, kb, data) ==
    LET upd == Callback(data) IN
    /\ Route(u, upd) = << "booking", "confirm_appointment" >>
    /\ IF data.tag = "cancel"
       THEN /\ EditMessage(u, kb, NoMarkup)
            /\ Return("booking", u, END)
            /\ last' = Outcome(u, "confirm_appointment", upd, "Buyurtma bekor qilindi",
                               NoMarkup, << >>, FALSE)
            /\ UNCHANGED << appointments, user_data >>
       ELSE IF ~HasPhone(u)
       THEN /\ EditMessage(u, kb, NoMarkup)
            /\ Return("booking", u, CONTACT_INFO)
            /\ last' = Outcome(u, "confirm_appointment", upd,
                               "telefon raqamingizni yuboring", NoMarkup, << >>, FALSE)
            /\ UNCHANGED << appointments, user_data >>
       ELSE save_appointment(u, "confirm_appointment", upd, kb)
    /\ UNCHANGED << users, now >>

\* contact_info (lines 456-490)
contact_info(u, upd) ==
    LET phone_number == IF upd.kind = "contact" THEN upd.text ELSE Strip(upd.text) IN
    /\ Route(u, upd) = << "booking", "contact_info" >>
    /\ IF upd.kind # "contact"
          /\ ~(StartsWithPlus(phone_number) /\ StrLen(phone_number) >= 12)
       THEN /\ Return("booking", u, CONTACT_INFO)
            /\ last' = Outcome(u, "contact_info", upd, "Noto'g'ri format",
                               NoMarkup, << >>, FALSE)
            /\ UNCHANGED << users, appointments, user_data, keyboards >>
       ELSE /\ users' = SetPhone(u, phone_number)
            /\ save_appointment(u, "contact_info", upd, {})
    /\ UNCHANGED now

\* cancel (lines 692-701), the fallback of both conversation handlers.
cancel(u) ==
    LET upd == Command("cancel") IN
    /\ Route(u, upd)[2] = "cancel"
    /\ user_data' = [ user_data EXCEPT ![u] = EmptyDict ]
    /\ Return(Route(u, upd)[1], u, END)
    /\ last' = Outcome(u, "cancel", upd, "Amaliyot bekor qilindi", NoMarkup, << >>, FALSE)
    /\ UNCHANGED << users, appointments, keyboards, now >>

\* view_my_appointments (lines 583-623)
view_my_appointments(u) ==
    LET upd == Text(MY_APPOINTMENTS) IN
    /\ Route(u, upd) = << "conv", "view_my_appointments" >>
    /\ Return("conv", u, MAIN_MENU)
    /\ \E listing \in MyAppointments(u) :
          last' = [ Outcome(u, "view_my_appointments", upd,
                            IF listing # << >>
                            THEN "Sizning buyurtmalaringiz"
                            ELSE "Sizda hali buyurtmalar yo'q",
                            NoMarkup, << >>, FALSE)
                      EXCEPT !.listing = listing ]
    /\ UNCHANGED << users, appointments, user_data, keyboards, now >>

\* Mutant of admin_panel: the check of ADMIN_IDS is left out.
admin_panel_ungated(u) ==
    LET upd == Text(ADMIN_PANEL_TEXT) IN
    /\ Route(u, upd) = << "conv", "admin_panel" >>
    /\ Return("conv", u, ADMIN_PANEL)
    /\ last' = Outcome(u, "admin_panel", upd, "Admin panel",
                       NoMarkup, << >>, FALSE)
    /\ UNCHANGED << users, appointments, user_data, keyboards, now >>

\* admin_panel (lines 626-646)
admin_panel(u) ==
    LET upd == Text(ADMIN_PANEL_TEXT) IN
    /\ Route(u, upd) = << "conv", "admin_panel" >>
    /\ IF u \notin AdminSet
       THEN /\ Return("conv", u, MAIN_MENU)
            /\ last' = Outcome(u, "admin_panel", upd,
                               "Bu funksiya faqat adminlar uchun mavjud",
                               NoMarkup, << >>, FALSE)
       ELSE /\ Return("conv", u, ADMIN_PANEL)
            /\ last' = Outcome(u, "admin_panel", upd, "Admin panel",
                               NoMarkup, << >>, FALSE)
    /\ UNCHANGED << users, appointments, user_data, keyboards, now >>

\* admin_actions (lines 649-676).  view_appointments_by_date (lines 704-774)
\* is defined when main() runs; view_clients and view_all_appointments are
\* defined below the call of main() (lines 1020-1024, 1076), so the names do
\* not exist while the bot runs and the call raises NameError.
admin_actions(u, text) ==
    LET upd == Text(text) IN
    /\ Route(u, upd) = << "conv", "admin_actions" >>
    /\ IF u \notin AdminSet
       THEN /\ Return("conv", u, MAIN_MENU)
            /\ last' = Outcome(u, "admin_actions", upd,
                               "Bu funksiya faqat adminlar uchun mavjud",
                               NoMarkup, << >>, FALSE)
       ELSE CASE text = TODAY_APPOINTMENTS ->
                   /\ Return("conv", u, ADMIN_PANEL)
                   /\ last' = Outcome(u, "view_appointments_by_date", upd,
                                      "Bugungi buyurtmalar", NoMarkup, << >>, FALSE)
              [] text \in { ALL_APPOINTMENTS, CLIENT_LIST } ->
                   Raise(u, "admin_actions", upd)
              [] text = BACK_TO_MENU ->
                   /\ Return("conv", u, MAIN_MENU)
                   /\ last' = Outcome(u, "admin_actions", upd, "Asosiy menyu",
                                      NoMarkup, << >>, FALSE)
              [] OTHER ->
                   /\ Return("conv", u, ADMIN_PANEL)
                   /\ last' = Outcome(u, "admin_actions", upd, "", NoMarkup, << >>, FALSE)
    /\ UNCHANGED << users, appointments, user_data, keyboards, now >>

\* handle_existing_appointment (lines 777-949)
handle_existing_appointment(u, kb, data) ==
    LET upd == Callback(data)
        h == "handle_existing_appointment"
        existing_appointment == ExistingAppointment(u, Strftime(now))
    IN
    /\ Route(u, upd) = << "booking", h >>
    /\ CASE data.tag = "back_to_main" ->
              /\ DeleteMessage(u, kb)
              /\ Return("booking", u, MAIN_MENU)
              /\ last' = Outcome(u, h, upd, "Asosiy menyu", NoMarkup, << >>, FALSE)
              /\ UNCHANGED << appointments, user_data >>
         [] data.tag = "new_appointment" ->
              /\ EditMessage(u, kb, ServiceKeyboard)
              /\ Return("booking", u, SELECTING_SERVICE)
              /\ last' = Outcome(u, h, upd, "Xizmat turini tanlang",
                                 ServiceKeyboard, << >>, FALSE)
              /\ UNCHANGED << appointments, user_data >>
         [] data.tag = "edit_appointment_" ->
              IF data.arg[1] \notin AppointmentIds
              THEN /\ EditMessage(u, kb, NoMarkup)
                   /\ Return("booking", u, MAIN_MENU)
                   /\ last' = Outcome(u, h, upd, "Bu buyurtma topilmadi",
                                      NoMarkup, << >>, FALSE)
                   /\ UNCHANGED << appointments, user_data >>
              ELSE /\ user_data' = [ user_data EXCEPT ![u] =
                       Put(@, "editing_appointment_id", data.arg[1]) ]
                   /\ EditMessage(u, kb, ViewKeyboard)
                   /\ Return("booking", u, HANDLING_EXISTING_APPOINTMENT)
                   /\ last' = Outcome(u, h, upd, "Buyurtma ma'lumotlari",
                                      ViewKeyboard, << >>, FALSE)
                   /\ UNCHANGED appointments
         [] data.tag = "cancel_appointment" ->
              IF "editing_appointment_id" \notin DOMAIN user_data[u]
              THEN /\ EditMessage(u, kb, NoMarkup)
                   /\ Return("booking", u, MAIN_MENU)
                   /\ last' = Outcome(u, h, upd, "Xatolik yuz berdi",
                                      NoMarkup, << >>, FALSE)
                   /\ UNCHANGED << appointments, user_data >>
              ELSE /\ appointments' = CancelRow(user_data[u]["editing_appointment_id"])
                   /\ EditMessage(u, kb, NoMarkup)
                   /\ user_data' = [ user_data EXCEPT ![u] = EmptyDict ]
                   /\ Return("booking", u, MAIN_MENU)
                   /\ last' = Outcome(u, h, upd, "Buyurtma bekor qilindi",
                                      NoMarkup, << >>, FALSE)
         [] data.tag = "back_to_appointments" ->
              /\ IF existing_appointment # {}
                 THEN \E appt_id \in existing_appointment :
                        /\ EditMessage(u, kb, ExistingKeyboard(appt_id))
                        /\ Return("booking", u, HANDLING_EXISTING_APPOINTMENT)
                        /\ last' = Outcome(u, h, upd, "Sizda allaqachon buyurtma mavjud",
                                           ExistingKeyboard(appt_id), << >>, FALSE)
                 ELSE /\ Return("booking", u, MAIN_MENU)
                      /\ last' = Outcome(u, h, upd, "", NoMarkup, << >>, FALSE)
                      /\ UNCHANGED keyboards
              /\ UNCHANGED << appointments, user_data >>
         [] OTHER ->
              /\ Return("booking", u, MAIN_MENU)
              /\ last' = Outcome(u, h, upd, "", NoMarkup, << >>, FALSE)
              /\ UNCHANGED << appointments, user_data, keyboards >>
    /\ UNCHANGED << users, now >>

----------------------------------------------------------------------------
(* The environment. *)

\* A day passes.
Tick ==
    /\ now' = now + 1
    /\ UNCHANGED << users, appointments, conv, booking, user_data, keyboards, last >>

\* The user removes a message of the bot from the chat.
Dismiss(u, kb) ==
    /\ keyboards' = [ keyboards EXCEPT ![u] = @ (-) SetToBag({kb}) ]
    /\ UNCHANGED << users, appointments, conv, booking, user_data, now, last >>

----------------------------------------------------------------------------
(* The channel posters (src/main.py, src/maxpy.py): PostMemory. *)

HASH_LIMIT == 100
POINTS_LIMIT == 10
POSTS_LIMIT == 30
LEAST_USED == 5
SIMILAR_NUM == 3
SIMILAR_DEN == 10

Range(seq) == { seq[i] : i \in 1..Len(seq) }

\* seq[-n:]
LastN(seq, n) ==
    IF Len(seq) > n THEN SubSeq(seq, Len(seq) - n + 1, Len(seq)) ELSE seq

QUIZ == Str("Quiz", << >>)

\* english_topics of main(): the topics of the rotation, "Quiz" last.
english_topics ==
    [ i \in 1..NumTopics |->
        IF i = NumTopics THEN QUIZ ELSE Str("topic", << i >>) ]

\* A sentence of a generated text: whether it holds one of the markers
\* ('important', 'key', 'remember', ...) and how many words it has.
Sentence(id, marker, words) == [ id |-> id, marker |-> marker, words |-> words ]

\* A text that Gemini returns: its body stands for the bytes that are
\* hashed, its sentences for what _extract_key_points splits it into, and
\* quiz_topic for what the three extraction methods of generate_daily_post
\* find in it.
Content(body, sentences, quiz_topic) ==
    [ body |-> body, sentences |-> sentences, quiz_topic |-> quiz_topic ]

\* No topic and no text yet.
NoTopic == Str("", << >>)
NoContent == Content(0, << >>, "")

\* hashlib.md5(content.encode('utf-8')).hexdigest(): distinct texts may
\* have the same digest.
Md5(content) == content.body % HashSpace

\* _extract_key_points: the sentences with a marker, and those of more than
\* 10 and fewer than 20 words.
extract_key_points(content) ==
    SelectSeq(content.sentences,
              LAMBDA sentence : \/ sentence.marker
                                \/ (10 < sentence.words /\ sentence.words < 20))

\* PostMemory._load_history when there is no history file.
EmptyHistory ==
    [ topics |-> EmptyDict, content_hashes |-> << >>, quiz_topics |-> << >>,
      detailed_posts |-> << >>, topic_content |-> EmptyDict ]

\* PostMemory.is_content_similar
is_content_similar(post_history, topic, new_content) ==
    IF topic \notin DOMAIN post_history.topic_content
    THEN FALSE
    ELSE LET new_key_points == Range(extract_key_points(new_content)) IN
         IF new_key_points = {}
         THEN FALSE
         ELSE \E i \in 1..Len(post_history.topic_content[topic]) :
                 LET previous_points_set == Range(post_history.topic_content[topic][i])
                     intersection == Cardinality(new_key_points \cap previous_points_set)
                     union == Cardinality(new_key_points \cup previous_points_set)
                 IN /\ union > 0
                    /\ intersection * SIMILAR_DEN > SIMILAR_NUM * union

\* Mutant of record_post: the lists are cut from the front, so that the
\* oldest entries are the ones kept.
record_post_keeping_oldest(post_history, topic, content) ==
    LET content_hash == Md5(content)
        key_points == extract_key_points(content)
        First(seq, n) == IF Len(seq) > n THEN SubSeq(seq, 1, n) ELSE seq
    IN [ topics |->
           Put(post_history.topics, topic,
               [ count |-> IF topic \in DOMAIN post_history.topics
                           THEN post_history.topics[topic].count + 1 ELSE 1 ]),
         content_hashes |->
           IF content_hash \in Range(post_history.content_hashes)
           THEN post_history.content_hashes
           ELSE First(Append(post_history.content_hashes, content_hash), HASH_LIMIT),
         quiz_topics |-> post_history.quiz_topics,
         detailed_posts |->
           First(Append(post_history.detailed_posts,
                        [ topic |-> topic, content_hash |-> content_hash,
                          key_points |-> key_points ]), POSTS_LIMIT),
         topic_content |->
           IF key_points = << >>
           THEN post_history.topic_content
           ELSE Put(post_history.topic_content, topic,
                    First(Append(IF topic \in DOMAIN post_history.topic_content
                                 THEN post_history.topic_content[topic] ELSE << >>,
                                 key_points), POINTS_LIMIT)) ]

\* PostMemory.record_post: the history after the call (the time stamps are
\* left out).
record_post(post_history, topic, content) ==
    LET content_hash == Md5(content)
        key_points == extract_key_points(content)
    IN [ topics |->
           Put(post_history.topics, topic,
               [ count |-> IF topic \in DOMAIN post_history.topics
                           THEN post_history.topics[topic].count + 1 ELSE 1 ]),
         content_hashes |->
           IF content_hash \in Range(post_history.content_hashes)
           THEN post_history.content_hashes
           ELSE LastN(Append(post_history.content_hashes, content_hash), HASH_LIMIT),
         quiz_topics |-> post_history.quiz_topics,
         detailed_posts |->
           LastN(Append(post_history.detailed_posts,
                        [ topic |-> topic, content_hash |-> content_hash,
                          key_points |-> key_points ]), POSTS_LIMIT),
         topic_content |->
           IF key_points = << >>
           THEN post_history.topic_content
           ELSE Put(post_history.topic_content, topic,
                    LastN(Append(IF topic \in DOMAIN post_history.topic_content
                                 THEN post_history.topic_content[topic] ELSE << >>,
                                 key_points), POINTS_LIMIT)) ]

\* Mutant of is_content_duplicate: nothing is a duplicate.
is_content_duplicate_never(post_history, content) == FALSE

\* PostMemory.is_content_duplicate
is_content_duplicate(post_history, content) ==
    Md5(content) \in Range(post_history.content_hashes)

\* The usage count get_least_used_topics reads for a topic.
UsageCount(post_history, topic) ==
    IF topic \in DOMAIN post_history.topics
    THEN post_history.topics[topic]["count"] ELSE 0

\* Mutant of get_least_used_topics: the topics are not sorted by usage.
get_least_used_topics_unsorted(post_history, topics, count) ==
    SubSeq(topics, 1, IF Len(topics) < count THEN Len(topics) ELSE count)

\* PostMemory.get_least_used_topics: list.sort is stable, so topics of the
\* same count stay in the order of `topics`.
get_least_used_topics(post_history, topics, count) ==
    LET Before(i, j) ==
            \/ UsageCount(post_history, topics[i]) < UsageCount(post_history, topics[j])
            \/ /\ UsageCount(post_history, topics[i]) = UsageCount(post_history, topics[j])
               /\ i < j
        Rank(i) == Cardinality({ j \in 1..Len(topics) : Before(j, i) })
        topic_usage == [ k \in 1..Len(topics) |->
                           topics[CHOOSE i \in 1..Len(topics) : Rank(i) = k - 1] ]
    IN SubSeq(topic_usage, 1, IF Len(topics) < count THEN Len(topics) ELSE count)

\* AutomatedChannelManager.__init__ in the script named, and the channel it
\* posts to.  pc is where the one thread of the script stands, returned is
\* what the call made last gave back and logged is the message it logged
\* last.
NewManager(script) ==
    [ script |-> script,
      memory |-> EmptyHistory,
      is_posting |-> FALSE,
      pc |-> "main",
      caller |-> "",
      topic |-> NoTopic,
      content |-> NoContent,
      returned |-> "None",
      logged |-> "",
      active |-> 0,
      channel |-> << >> ]

----------------------------------------------------------------------------
(* The bot after main() has set up the database and registered the         *)
(* handlers: empty tables, no conversation.                                *)

Init ==
    /\ users = EmptyDict
    /\ appointments = << >>
    /\ conv = EmptyDict
    /\ booking = EmptyDict
    /\ user_data = [ u \in UserIds |-> EmptyDict ]
    /\ keyboards = [ u \in UserIds |-> EmptyBag ]
    /\ now = 0
    /\ poster = NewManager("main.py")
    /\ last = Outcome(0, "", Command(""), "", NoMarkup, << >>, FALSE)

----------------------------------------------------------------------------
(* Scopes.  A scope names the users that act and bounds what they do; a    *)
(* step is taken only if the state it leads to lies within the scope.      *)
(* Where the scope has undelivered = FALSE, Telegram takes every reply of  *)
(* save_appointment to the booker.                                         *)

Bound(S) ==
    /\ Len(appointments) <= S.appointments
    /\ now <= S.days
    /\ \A u \in UserIds : BagCardinality(keyboards[u]) <= S.keyboards
    /\ S.undelivered \/ ~last.undelivered

Within(S, A) == A /\ Bound(S)' /\ UNCHANGED poster

\* The callback_data of the keyboards the handlers of a state send.
OwnTags(state) ==
    CASE state = SELECTING_SERVICE -> { "service_", "back_to_main" }
      [] state = CHOOSING_DATE -> { "date_", "back_to_services" }
      [] state = CHOOSING_TIME -> { "time_", "unavailable", "back_to_dates" }
      [] state = CONFIRMING_APPOINTMENT -> { "confirm", "cancel" }
      [] state = HANDLING_EXISTING_APPOINTMENT ->
            { "new_appointment", "edit_appointment_", "back_to_main",
              "cancel_appointment", "back_to_appointments" }
      [] OTHER -> {}

\* The buttons of a keyboard that user u of the scope presses.  Where the
\* scope has foreign = FALSE, a user presses a button of an old message only
\* in a state whose own keyboards have such a button.
Pressable(S, u, kb) ==
    { d \in kb :
        /\ S.foreign \/ (u \in DOMAIN booking /\ d.tag \in OwnTags(booking[u]))
        /\ CASE d.tag = "service_" -> d.arg[1] <= S.services
             [] d.tag = "time_" ->
                   d.arg[1] \in { WORKING_HOURS[i] : i \in 1..S.slots }
             [] d.tag = "date_" ->
                   d.arg \in { AddDays(StartDate, i) : i \in 0..(S.dates - 1) }
             [] OTHER -> TRUE }

AdminTexts == { TODAY_APPOINTMENTS, ALL_APPOINTMENTS, CLIENT_LIST, BACK_TO_MENU,
                NEW_BOOKING }

PhoneUpdates ==
    { Text(t) : t \in PhoneTexts } \cup { Contact(p) : p \in ContactPhones }

\* One user, who is the admin, with every handler of the bot.
Scope ==
    [ users |-> { ADMIN_IDS[1] }, services |-> NumServices, slots |-> NumSlots,
      dates |-> NumDates, appointments |-> MaxAppointments,
      keyboards |-> MaxKeyboards, days |-> MaxDays,
      foreign |-> TRUE, undelivered |-> FALSE ]

Next ==
    \/ \E u \in Scope.users : Within(Scope, start(u))
    \/ \E u \in Scope.users : Within(Scope, main_menu(u))
    \/ \E u \in Scope.users : Within(Scope, start_booking(u))
    \/ \E u \in Scope.users : Within(Scope, view_my_appointments(u))
    \/ \E u \in Scope.users : Within(Scope, admin_panel(u))
    \/ \E u \in Scope.users : \E text \in AdminTexts :
          Within(Scope, admin_actions(u, text))
    \/ \E u \in Scope.users : Within(Scope, cancel(u))
    \/ \E u \in Scope.users : \E upd \in PhoneUpdates :
          Within(Scope, contact_info(u, upd))
    \/ \E u \in Scope.users : \E kb \in BagToSet(keyboards[u]) :
          \E data \in Pressable(Scope, u, kb) :
             \/ Within(Scope, select_service(u, kb, data))
             \/ Within(Scope, choose_date(u, kb, data))
             \/ Within(Scope, choose_time(u, kb, data))
             \/ Within(Scope, confirm_appointment(u, kb, data))
             \/ Within(Scope, handle_existing_appointment(u, kb, data))
    \/ \E u \in Scope.users : \E kb \in BagToSet(keyboards[u]) : Within(Scope, Dismiss(u, kb))
    \/ Within(Scope, Tick)

Spec == Init /\ [][Next]_vars

----------------------------------------------------------------------------
(* Claims about the booking conversation. *)

ScratchKeys == { "selected_service", "selected_date", "selected_time", "service_price" }

Count(seq, x) == Cardinality({ i \in 1..Len(seq) : seq[i] = x })

\* The scheduled rows of a user.
Scheduled(u) ==
    { i \in AppointmentIds :
        appointments[i].user_id = u /\ appointments[i].status = "scheduled" }

\* The last update canceled an appointment through the buttons of
\* HANDLING_EXISTING_APPOINTMENT.
CanceledLast ==
    /\ last.handler = "handle_existing_appointment"
    /\ last.data = Str("cancel_appointment", << >>)
    /\ last.reply = "Buyurtma bekor qilindi"

\* C5: right after a user's only appointment was canceled, the query of
\* start_booking finds no active appointment for that user, and the user's
\* next "new booking" message is taken by start_booking, which leads to
\* SELECTING_SERVICE.
C5_BookingEntryAfterCancellation ==
    (CanceledLast /\ Scheduled(last.user) = {})
      => /\ ExistingAppointment(last.user, Strftime(now)) = {}
         /\ Route(last.user, Text(NEW_BOOKING)) = << "booking", "start_booking" >>

\* C5 case: the only appointment of the user was canceled by the last update.
C5_Witness ==
    /\ CanceledLast
    /\ Scheduled(last.user) = {}
    /\ \E i \in 1..Len(last.store) :
          /\ last.store[i].user_id = last.user
          /\ last.store[i].status = "scheduled"
          /\ appointments[i].status = "canceled"

\* The rows of u that a calendar would call active on day `day`, and the
\* earliest of them by calendar date and then time.
DueAppointments(u, day) ==
    { i \in Scheduled(u) :
        ~CalendarLess(appointments[i].date.arg, AddDays(StartDate, day)) }

EarliestDue(u, day) ==
    { i \in DueAppointments(u, day) :
        \A j \in DueAppointments(u, day) :
           /\ ~CalendarLess(appointments[j].date.arg, appointments[i].date.arg)
           /\ appointments[j].date = appointments[i].date
                => appointments[j].time.arg[1] >= appointments[i].time.arg[1] }

\* C6: whatever the table holds and whatever day it is, the query for a
\* user's active appointment returns the scheduled row of that user that is
\* earliest by calendar date and then time among those dated today or
\* later, and no row exactly when there is none.
C6_EarliestByCalendar ==
    (\A i \in AppointmentIds :
        appointments[i].date.tag = "d.m.Y" /\ appointments[i].time.tag = "H:M")
      => \A u \in UserIds :
            ExistingAppointment(u, Strftime(now)) = EarliestDue(u, now)

\* C6 case: a user has a scheduled appointment dated in a month before the
\* month of today.
C6_Witness ==
    \E i \in AppointmentIds :
       /\ appointments[i].status = "scheduled"
       /\ appointments[i].date.tag = "d.m.Y"
       /\ appointments[i].date.arg[2] < AddDays(StartDate, now)[2]

\* C7: /start of an identity without a row creates its row with the display
\* fields of the identity and the registration date; no step of any handler
\* removes a row, changes the display fields or the registration date of a
\* row, or creates a row other than by /start.
C7_RegistrationIdempotent ==
    [][ /\ DOMAIN users \subseteq DOMAIN users'
        /\ \A u \in DOMAIN users :
              /\ users'[u].registration_date = users[u].registration_date
              /\ users'[u].username = users[u].username
              /\ users'[u].first_name = users[u].first_name
              /\ users'[u].last_name = users[u].last_name
        /\ \A u \in UserIds :
              (start(u) /\ u \notin DOMAIN users)
                => users' = Put(users, u,
                        [ username |-> EffectiveUser(u).username,
                          first_name |-> EffectiveUser(u).first_name,
                          last_name |-> EffectiveUser(u).last_name,
                          phone_number |-> NULL,
                          registration_date |-> now ])
        /\ \A u \in DOMAIN users' \ DOMAIN users : start(u) ]_vars

\* C7 case: /start was sent again, on a later day than the registration, by
\* a user whose row holds a phone number and who has booked.
C7_Witness ==
    /\ last.handler = "start"
    /\ last.user \in DOMAIN users
    /\ users[last.user].registration_date < now
    /\ users[last.user].phone_number # NULL
    /\ \E i \in AppointmentIds : appointments[i].user_id = last.user

\* C8: /cancel is taken in every conversation state; after it the user's
\* scratch is empty and the user is at the main menu, where the next "new
\* booking", "my appointments", "contact" or "admin panel" message is
\* handled.
C8_CancelReturnsToMenu ==
    /\ \A u \in DOMAIN conv : Route(u, Command("cancel"))[2] = "cancel"
    /\ last.handler = "cancel"
         => /\ user_data[last.user] = EmptyDict
            /\ last.user \in DOMAIN conv
            /\ conv[last.user] = MAIN_MENU
            /\ Route(last.user, Text(NEW_BOOKING))[2] = "start_booking"
            /\ Route(last.user, Text(MY_APPOINTMENTS))[2] = "view_my_appointments"
            /\ Route(last.user, Text(CONTACT))[2] = "main_menu"
            /\ Route(last.user, Text(ADMIN_PANEL_TEXT))[2] = "admin_panel"

\* C8 case: /cancel was handled last.
C8_Witness == last.handler = "cancel"

\* The last update ended a booking conversation: the appointment was
\* written, "cancel" was pressed at the confirmation, /cancel was sent, or
\* an appointment was canceled.
BookingEnded ==
    \/ /\ last.handler \in { "confirm_appointment", "contact_info" }
       /\ last.reply = "Buyurtmangiz muvaffaqiyatli saqlandi"
    \/ /\ last.handler = "confirm_appointment"
       /\ last.data = Str("cancel", << >>)
    \/ last.handler = "cancel"
    \/ CanceledLast

\* C9: when an update has ended a booking conversation, the scratch of the
\* user (service, price, date, time, editing appointment id) is empty.
C9_ScratchEmptyAtEnd == BookingEnded => user_data[last.user] = EmptyDict

\* C9 case: "cancel" was pressed at the confirmation.
C9_Witness ==
    /\ last.handler = "confirm_appointment"
    /\ last.data = Str("cancel", << >>)

----------------------------------------------------------------------------
(* Two clients book at the same time: the handlers of different users      *)
(* interleave update by update.                                            *)

RaceScope ==
    [ users |-> { 1001, 1002 }, services |-> NumServices, slots |-> NumSlots,
      dates |-> NumDates, appointments |-> MaxAppointments,
      keyboards |-> MaxKeyboards, days |-> MaxDays,
      foreign |-> TRUE, undelivered |-> FALSE ]

NextRace ==
    \/ \E u \in RaceScope.users : Within(RaceScope, start(u))
    \/ \E u \in RaceScope.users : Within(RaceScope, start_booking(u))
    \/ \E u \in RaceScope.users : \E upd \in PhoneUpdates :
          Within(RaceScope, contact_info(u, upd))
    \/ \E u \in RaceScope.users : \E kb \in BagToSet(keyboards[u]) :
          \E data \in Pressable(RaceScope, u, kb) :
             \/ Within(RaceScope, select_service(u, kb, data))
             \/ Within(RaceScope, choose_date(u, kb, data))
             \/ Within(RaceScope, choose_time(u, kb, data))
             \/ Within(RaceScope, confirm_appointment(u, kb, data))
             \/ Within(RaceScope, handle_existing_appointment(u, kb, data))

SpecRace == Init /\ [][NextRace]_vars

\* C1: in every state, whatever the interleaving of the booking steps of
\* the users, no two rows with status scheduled have the same date and
\* time.
C1_SlotExclusivity ==
    \A i \in AppointmentIds : \A j \in AppointmentIds :
       ( /\ i # j
         /\ appointments[i].status = "scheduled"
         /\ appointments[j].status = "scheduled" )
         => \/ appointments[i].date # appointments[j].date
            \/ appointments[i].time # appointments[j].time

\* C1 case: a user confirmed a slot that another user had booked after the
\* time keyboard was shown to the first.
C1_Witness ==
    /\ last.handler \in { "confirm_appointment", "contact_info" }
    /\ Len(appointments) = Len(last.store) + 1
    /\ \E i \in 1..Len(last.store) :
          /\ last.store[i].status = "scheduled"
          /\ last.store[i].user_id # last.user
          /\ last.store[i].date = appointments[Len(appointments)].date
          /\ last.store[i].time = appointments[Len(appointments)].time

\* The entry of a dictionary at a key, or nothing.
At(dict, key) == IF key \in DOMAIN dict THEN << dict[key] >> ELSE << >>

\* C18: a step that handles an update of one user leaves the state of the
\* outer conversation, the state of the booking conversation and the scratch
\* of every other user as they were.
C18_UsersIsolated ==
    [][ \A b \in UserIds :
          b # last'.user
            => /\ At(conv', b) = At(conv, b)
               /\ At(booking', b) = At(booking, b)
               /\ user_data'[b] = user_data[b] ]_vars

\* C18 case: a user has selected a service while the other user was in the
\* booking conversation with another service in the scratch.
C18_Witness ==
    /\ last.handler = "select_service"
    /\ ~last.raised
    /\ \E b \in UserIds \ { last.user } :
          /\ b \in DOMAIN booking
          /\ "selected_service" \in DOMAIN user_data[b]
          /\ "selected_service" \in DOMAIN user_data[last.user]
          /\ user_data[b]["selected_service"]
               # user_data[last.user]["selected_service"]

----------------------------------------------------------------------------
(* The time keyboard as a function of the table: a client at CHOOSING_DATE *)
(* presses a date while the table holds any rows of another client.        *)

\* The slots the rows of the table are booked at: the first two and the
\* last of WORKING_HOURS.
RenderHours == { WORKING_HOURS[1], WORKING_HOURS[2], WORKING_HOURS[Len(WORKING_HOURS)] }

RenderScope ==
    [ users |-> { 1001 }, services |-> NumServices, slots |-> NumSlots,
      dates |-> RenderDates, appointments |-> RenderRows,
      keyboards |-> MaxKeyboards, days |-> MaxDays,
      foreign |-> TRUE, undelivered |-> FALSE ]

\* Rows that save_appointment has written for client 1002, canceled or not.
StoredRows ==
    { [ AppointmentRow(1002, ServiceType[1], SERVICE_PRICES[ServiceType[1]],
                       Strftime(d), TimeStr(h)) EXCEPT !.status = st ] :
        d \in 0..(RenderDates - 1), h \in RenderHours,
        st \in { "scheduled", "canceled" } }

InitRender ==
    /\ users = [ u \in { 1001, 1002 } |->
                   [ UserRow(EffectiveUser(u), 0) EXCEPT
                       !.phone_number = "+998901234567" ] ]
    /\ appointments \in UNION { [ 1..n -> StoredRows ] : n \in 0..RenderRows }
    /\ conv = [ u \in { 1001, 1002 } |-> MAIN_MENU ]
    /\ booking = [ u \in { 1001 } |-> CHOOSING_DATE ]
    /\ user_data = [ u \in UserIds |->
                       IF u = 1001
                       THEN Put(Put(EmptyDict, "selected_service", ServiceType[1]),
                                "service_price", SERVICE_PRICES[ServiceType[1]])
                       ELSE EmptyDict ]
    /\ keyboards = [ u \in UserIds |->
                       IF u = 1001 THEN SetToBag({ Buttons(DateKeyboard(0)) })
                       ELSE EmptyBag ]
    /\ now = 0
    /\ poster = NewManager("main.py")
    /\ last = Outcome(1001, "select_service", Callback(Str("service_", << 1 >>)),
                      "Endi sana tanlang", DateKeyboard(0), << >>, FALSE)

NextRender ==
    \E u \in RenderScope.users : \E kb \in BagToSet(keyboards[u]) :
       \E data \in Pressable(RenderScope, u, kb) :
          Within(RenderScope, choose_date(u, kb, data))

SpecRender == InitRender /\ [][NextRender]_vars

\* The buttons of a markup, row after row.
RECURSIVE Flatten(_)
Flatten(markup) ==
    IF markup = << >> THEN << >> ELSE Head(markup) \o Flatten(Tail(markup))

\* The slot buttons of a time keyboard: all but the "back" button.
SlotButtons(markup) == SubSeq(Flatten(markup), 1, Len(Flatten(markup)) - 1)

\* A scheduled row of the table `store` holds the slot.
ScheduledAt(store, date, time) ==
    \E i \in 1..Len(store) :
       /\ store[i].status = "scheduled"
       /\ store[i].date = date
       /\ store[i].time = time

\* The last update was a date press that rendered the time keyboard.
RenderedLast == last.handler = "choose_date" /\ ~last.raised

\* C4: the time keyboard rendered for a date shows the 12 slots of the
\* catalog in catalog order, 09:00 first and 20:00 last; a slot is shown as
\* booked if and only if the table held a scheduled row for that date and
\* time when the keyboard was rendered, so that a date without scheduled
\* rows shows 12 available slots.
C4_RenderMarksBookedSlots ==
    RenderedLast =>
      LET slots == SlotButtons(last.markup)
          date == Str("d.m.Y", last.data.arg)
      IN /\ Len(slots) = 12
         /\ slots[1].text[2] = 9
         /\ slots[12].text[2] = 20
         /\ \A i \in 1..12 :
               /\ slots[i].text[2] = 9 + (i - 1)
               /\ slots[i].text[1] \in { "available", "unavailable" }
               /\ slots[i].text[1] = "unavailable"
                    <=> ScheduledAt(last.store, date, TimeStr(slots[i].text[2]))
               /\ slots[i].callback_data =
                    IF ScheduledAt(last.store, date, TimeStr(slots[i].text[2]))
                    THEN Str("unavailable", << >>)
                    ELSE Str("time_", << slots[i].text[2] >>)

\* C4 case: the keyboard was rendered for a date in the next month with one
\* slot held by a scheduled row and another by a canceled row.
C4_Witness ==
    /\ RenderedLast
    /\ last.data.tag = "date_"
    /\ last.data.arg[2] # StartDate[2]
    /\ \E i \in 1..Len(last.store) : \E j \in 1..Len(last.store) :
          /\ last.store[i].date = Str("d.m.Y", last.data.arg)
          /\ last.store[j].date = Str("d.m.Y", last.data.arg)
          /\ last.store[i].status = "scheduled"
          /\ last.store[j].status = "canceled"
          /\ last.store[i].time # last.store[j].time

----------------------------------------------------------------------------
(* The answer to the confirmation as a function of the scratch and of the  *)
(* tables: a client at CONFIRMING_APPOINTMENT, with any service of the     *)
(* catalog chosen, presses a button while the table holds any rows of      *)
(* another client.                                                          *)

ConfirmScope ==
    [ users |-> { 1001 }, services |-> NumServices, slots |-> NumSlots,
      dates |-> RenderDates, appointments |-> ConfirmRows + 1,
      keyboards |-> MaxKeyboards, days |-> MaxDays,
      foreign |-> TRUE, undelivered |-> FALSE ]

\* context.user_data as select_service, choose_date and choose_time leave it.
Scratches ==
    { Put(Put(Put(Put(EmptyDict, "selected_service", s),
                  "service_price", SERVICE_PRICES[s]),
              "selected_date", Strftime(d)),
          "selected_time", TimeStr(h)) :
        s \in ServiceNames, d \in 0..(RenderDates - 1), h \in RenderHours }

InitConfirm ==
    /\ \E phone_number \in { NULL, "+998901234567" } :
          users = [ u \in { 1001, 1002 } |->
                      [ UserRow(EffectiveUser(u), 0) EXCEPT
                          !.phone_number = IF u = 1001 THEN phone_number
                                           ELSE "+998901234567" ] ]
    /\ appointments \in UNION { [ 1..n -> StoredRows ] : n \in 0..ConfirmRows }
    /\ conv = [ u \in { 1001, 1002 } |-> MAIN_MENU ]
    /\ booking = [ u \in { 1001 } |-> CONFIRMING_APPOINTMENT ]
    /\ \E scratch \in Scratches :
          user_data = [ u \in UserIds |-> IF u = 1001 THEN scratch ELSE EmptyDict ]
    /\ keyboards = [ u \in UserIds |->
                       IF u = 1001 THEN SetToBag({ Buttons(ConfirmKeyboard) })
                       ELSE EmptyBag ]
    /\ now = 0
    /\ poster = NewManager("main.py")
    /\ last = Outcome(1001, "choose_time",
                      Callback(Str("time_", user_data[1001]["selected_time"].arg)),
                      "Tasdiqlaysizmi?", ConfirmKeyboard, << >>, FALSE)

NextConfirm ==
    \/ \E u \in ConfirmScope.users : \E kb \in BagToSet(keyboards[u]) :
          \E data \in Pressable(ConfirmScope, u, kb) :
             Within(ConfirmScope, confirm_appointment(u, kb, data))
    \/ \E u \in ConfirmScope.users : \E upd \in PhoneUpdates :
          Within(ConfirmScope, contact_info(u, upd))

SpecConfirm == InitConfirm /\ [][NextConfirm]_vars

\* C2: a press of "cancel" at CONFIRMING_APPOINTMENT, whatever the scratch
\* and the tables hold, leaves the users table and the appointments table
\* as they were and sends no notice to the channel or to an admin.
C2_AbandonWritesNothing ==
    [][ \A u \in UserIds : \A kb \in BagToSet(keyboards[u]) :
          confirm_appointment(u, kb, Str("cancel", << >>))
            => /\ users' = users
               /\ appointments' = appointments
               /\ last'.sent = << >> ]_vars

\* C2 case: the last update was a "cancel" press at the confirmation, by a
\* user whose scratch holds a whole selection, with a row in the table.
C2_Witness ==
    /\ last.handler = "confirm_appointment"
    /\ last.data = Str("cancel", << >>)
    /\ ScratchKeys \subseteq DOMAIN user_data[last.user]
    /\ appointments # << >>
    /\ last.user \in DOMAIN users

\* C3: when a user with a stored phone presses "confirm" at
\* CONFIRMING_APPOINTMENT with a service, a date and a free slot chosen, the
\* table gains exactly one row (that user, that date and time, the chosen
\* service at its catalog price, status scheduled) and the fan-out attempts
\* exactly one send to the channel and exactly one to each admin.
C3_ConfirmWritesOneRow ==
    [][ \A u \in UserIds : \A kb \in BagToSet(keyboards[u]) :
          ( /\ confirm_appointment(u, kb, Str("confirm", << >>))
            /\ HasPhone(u)
            /\ ScratchKeys \subseteq DOMAIN user_data[u]
            /\ user_data[u]["selected_time"]
                 \notin BookedTimes(user_data[u]["selected_date"]) )
            => /\ Len(appointments') = Len(appointments) + 1
               /\ SubSeq(appointments', 1, Len(appointments)) = appointments
               /\ appointments'[Len(appointments')] =
                    [ user_id |-> u,
                      service |-> user_data[u]["selected_service"],
                      price |-> SERVICE_PRICES[user_data[u]["selected_service"]],
                      date |-> user_data[u]["selected_date"],
                      time |-> user_data[u]["selected_time"],
                      status |-> "scheduled" ]
               /\ Len(last'.sent) = 1 + Len(ADMIN_IDS)
               /\ Count(last'.sent, ChannelChat) = 1
               /\ \A a \in AdminSet : Count(last'.sent, UserChat(a)) = 1 ]_vars

\* C3 case: the last update was a "confirm" press by a user whose phone was
\* already stored; it added a row for a slot that was free, on a date with
\* another slot taken.
C3_Witness ==
    /\ last.handler = "confirm_appointment"
    /\ last.data = Str("confirm", << >>)
    /\ ~last.raised
    /\ Len(appointments) = Len(last.store) + 1
    /\ \A i \in 1..Len(last.store) :
          \/ last.store[i].status # "scheduled"
          \/ last.store[i].date # appointments[Len(appointments)].date
          \/ last.store[i].time # appointments[Len(appointments)].time
    /\ \E i \in 1..Len(last.store) :
          /\ last.store[i].status = "scheduled"
          /\ last.store[i].date = appointments[Len(appointments)].date

\* The users table `table` holds a phone number for u.
PhoneStored(table, u) == u \in DOMAIN table /\ table[u].phone_number # NULL

C24_PhoneSetOnce ==
    [][ \A u \in UserIds :
          PhoneStored(users, u)
            => /\ users'[u].phone_number = users[u].phone_number
               /\ (u \in DOMAIN booking' /\ booking'[u] = CONTACT_INFO)
                    => (u \in DOMAIN booking /\ booking[u] = CONTACT_INFO) ]_vars

\* C24 case: contact_info has stored a phone number and has raised, so that
\* the user is at CONTACT_INFO with a phone number in the users table.
C24_Witness ==
    /\ last.handler = "contact_info"
    /\ last.raised
    /\ PhoneStored(users, last.user)
    /\ last.user \in DOMAIN booking
    /\ booking[last.user] = CONTACT_INFO

\* The texts of PhoneTexts that are a "+" followed by at least 11 more
\* characters once the white space around them is taken off.
ValidPhoneTexts == { "+998901234567", " +998901234567 " }

RecipientSet == { Recipients[i] : i \in 1..Len(Recipients) }

\* C11: whichever of the sends of a booking notice fail, the handler that
\* wrote the row attempts the send to the channel and to every admin once
\* each, the row stays in the table, and the flow of the booker ends at the
\* main menu with the scratch cleared and without an error.
C11_FanOutBestEffort ==
    [][ (Len(appointments') = Len(appointments) + 1)
          => /\ Len(last'.sent) = Cardinality(RecipientSet)
             /\ \A c \in RecipientSet : Count(last'.sent, c) = 1
             /\ last'.failed \subseteq RecipientSet
             /\ SubSeq(appointments', 1, Len(appointments)) = appointments
             /\ appointments'[Len(appointments')].user_id = last'.user
             /\ appointments'[Len(appointments')].status = "scheduled"
             /\ ~last'.raised
             /\ last'.reply = "Buyurtmangiz muvaffaqiyatli saqlandi"
             /\ last'.user \notin DOMAIN booking'
             /\ conv'[last'.user] = MAIN_MENU
             /\ user_data'[last'.user] = EmptyDict ]_vars

\* C11 case: a row was written and the send to the channel and the send to
\* the admin both failed.
C11_Witness ==
    /\ Len(appointments) = Len(last.store) + 1
    /\ last.failed = RecipientSet

\* C12: whenever a handler has sent a booking notice to the channel or to
\* an admin, the notice names an appointment that this handler had written
\* to the table before it sent: the row is in the table, it was not there
\* when the handler started, and it is a scheduled row of the booker.
C12_WriteBeforeFanOut ==
    last.sent # << >>
      => /\ last.notice \in AppointmentIds
         /\ last.notice = Len(last.store) + 1
         /\ SubSeq(appointments, 1, Len(last.store)) = last.store
         /\ appointments[last.notice].user_id = last.user
         /\ appointments[last.notice].status = "scheduled"

\* C12 case: notices were sent for a second appointment of the table.
C12_Witness ==
    /\ last.sent # << >>
    /\ last.notice = 2
    /\ last.handler = "confirm_appointment"

\* C17: the price of every row of the appointments table is the price that
\* SERVICE_PRICES gives for the service of the row, whatever was selected,
\* abandoned and selected again before the row was written, and no step
\* changes the price of a row.
C17_PriceBinding ==
    [][ \A i \in 1..Len(appointments') :
          /\ appointments'[i].service \in DOMAIN SERVICE_PRICES
          /\ appointments'[i].price = SERVICE_PRICES[appointments'[i].service]
          /\ i <= Len(appointments)
               => appointments'[i].price = appointments[i].price ]_vars

\* C17 case: a row has just been written for a service other than the one
\* of the row written before it.
C17_Witness ==
    /\ Len(appointments) = 2
    /\ Len(last.store) = 1
    /\ appointments[1].service # appointments[2].service
    /\ appointments[1].price # appointments[2].price

\* C13: the handler that cancels an appointment sends a notice of the
\* cancellation to the channel and to every admin.
C13_CancellationNotified ==
    CanceledLast => \A c \in RecipientSet : Count(last.sent, c) >= 1

\* C13 case: the cancel branch has just turned a scheduled row into a
\* canceled one, and no message went to the channel or to an admin chat.
C13_Witness ==
    /\ CanceledLast
    /\ last.sent = << >>
    /\ \E i \in 1..Len(last.store) :
          /\ last.store[i].status = "scheduled"
          /\ appointments[i].status = "canceled"

----------------------------------------------------------------------------
(* A client who keeps an old message of the bot in the chat and presses    *)
(* its buttons later.                                                      *)

StaleScope ==
    [ users |-> { 1001 }, services |-> NumServices, slots |-> NumSlots,
      dates |-> NumDates, appointments |-> MaxAppointments,
      keyboards |-> StaleKeyboards, days |-> MaxDays,
      foreign |-> FALSE, undelivered |-> FALSE ]

NextStale ==
    \/ \E u \in StaleScope.users : Within(StaleScope, start(u))
    \/ \E u \in StaleScope.users : Within(StaleScope, start_booking(u))
    \/ \E u \in StaleScope.users : Within(StaleScope, cancel(u))
    \/ \E u \in StaleScope.users : \E upd \in PhoneUpdates :
          Within(StaleScope, contact_info(u, upd))
    \/ \E u \in StaleScope.users : \E kb \in BagToSet(keyboards[u]) :
          \E data \in Pressable(StaleScope, u, kb) :
             \/ Within(StaleScope, select_service(u, kb, data))
             \/ Within(StaleScope, choose_date(u, kb, data))
             \/ Within(StaleScope, choose_time(u, kb, data))
             \/ Within(StaleScope, confirm_appointment(u, kb, data))
             \/ Within(StaleScope, handle_existing_appointment(u, kb, data))

SpecStale == Init /\ [][NextStale]_vars

\* C10: a press of "cancel appointment" when the scratch names no
\* appointment, or names one whose row is already canceled or does not
\* exist, does not raise, leaves the tables as they were and sends no
\* notice.
C10_RepeatedCancelIsNoOp ==
    [][ \A u \in UserIds : \A kb \in BagToSet(keyboards[u]) :
          ( /\ handle_existing_appointment(u, kb, Str("cancel_appointment", << >>))
            /\ \/ "editing_appointment_id" \notin DOMAIN user_data[u]
               \/ user_data[u]["editing_appointment_id"] \notin AppointmentIds
               \/ appointments[user_data[u]["editing_appointment_id"]].status
                    = "canceled" )
            => /\ appointments' = appointments
               /\ users' = users
               /\ ~last'.raised
               /\ last'.sent = << >> ]_vars

\* C10 case: the bot has answered that the appointment is canceled, and the
\* row it was asked to cancel had been canceled before.
C10_Witness ==
    /\ CanceledLast
    /\ appointments = last.store
    /\ \E i \in AppointmentIds : appointments[i].status = "canceled"
    /\ \E i \in AppointmentIds : appointments[i].status = "scheduled"

\* C22: a press of "edit" for an appointment whose row is canceled is
\* answered with "not found" and without the keyboard that offers to cancel
\* it, and a press of "cancel appointment" for such a row is not answered
\* with "canceled".
C22_StaleEditNotFound ==
    [][ \A u \in UserIds : \A kb \in BagToSet(keyboards[u]) : \A data \in kb :
          /\ ( /\ handle_existing_appointment(u, kb, data)
               /\ data.tag = "edit_appointment_"
               /\ data.arg[1] \in AppointmentIds
               /\ appointments[data.arg[1]].status = "canceled" )
               => /\ last'.reply = "Bu buyurtma topilmadi"
                  /\ last'.markup = NoMarkup
          /\ ( /\ handle_existing_appointment(u, kb, data)
               /\ data.tag = "cancel_appointment"
               /\ "editing_appointment_id" \in DOMAIN user_data[u]
               /\ user_data[u]["editing_appointment_id"] \in AppointmentIds
               /\ appointments[user_data[u]["editing_appointment_id"]].status
                    = "canceled" )
               => last'.reply # "Buyurtma bekor qilindi" ]_vars

\* C22 case: a press of "edit" for a canceled row has been answered with the
\* details of the row and the keyboard that offers to cancel it.
C22_Witness ==
    /\ last.handler = "handle_existing_appointment"
    /\ last.data.tag = "edit_appointment_"
    /\ last.data.arg[1] \in 1..Len(last.store)
    /\ last.store[last.data.arg[1]].status = "canceled"
    /\ last.markup = ViewKeyboard

\* C14: no step removes a row of the appointments table or changes the
\* user_id, service, price, date or time of a row; the status of every row
\* is "scheduled" or "canceled", a new row is written as "scheduled", and
\* the only change of a status is from "scheduled" to "canceled".
C14_AppointmentLifecycle ==
    [][ /\ Len(appointments') >= Len(appointments)
        /\ \A i \in 1..Len(appointments) :
              /\ appointments'[i].user_id = appointments[i].user_id
              /\ appointments'[i].service = appointments[i].service
              /\ appointments'[i].price = appointments[i].price
              /\ appointments'[i].date = appointments[i].date
              /\ appointments'[i].time = appointments[i].time
              /\ appointments'[i].status # appointments[i].status
                   => /\ appointments[i].status = "scheduled"
                      /\ appointments'[i].status = "canceled"
        /\ \A i \in 1..Len(appointments') :
              /\ appointments'[i].status \in { "scheduled", "canceled" }
              /\ i > Len(appointments) => appointments'[i].status = "scheduled"
      ]_vars

\* C14 case: the cancel branch has run on a table that holds a row it had
\* canceled before and a later row written after that cancellation.
C14_Witness ==
    /\ CanceledLast
    /\ Len(appointments) = 2
    /\ appointments[1].status = "canceled"
    /\ appointments[2].status = "scheduled"
    /\ last.store = appointments

----------------------------------------------------------------------------
(* A client who books for today or for the day after, which is the first   *)
(* of the next month, and enters the booking flow again on the same day.   *)

EntryScope ==
    [ users |-> { 1001 }, services |-> NumServices, slots |-> NumSlots,
      dates |-> EntryDates, appointments |-> MaxAppointments,
      keyboards |-> MaxKeyboards, days |-> 0,
      foreign |-> FALSE, undelivered |-> FALSE ]

NextEntry ==
    \/ \E u \in EntryScope.users : Within(EntryScope, start(u))
    \/ \E u \in EntryScope.users : Within(EntryScope, start_booking(u))
    \/ \E u \in EntryScope.users : Within(EntryScope, cancel(u))
    \/ \E u \in EntryScope.users : \E upd \in PhoneUpdates :
          Within(EntryScope, contact_info(u, upd))
    \/ \E u \in EntryScope.users : \E kb \in BagToSet(keyboards[u]) :
          \E data \in Pressable(EntryScope, u, kb) :
             \/ Within(EntryScope, select_service(u, kb, data))
             \/ Within(EntryScope, choose_date(u, kb, data))
             \/ Within(EntryScope, choose_time(u, kb, data))
             \/ Within(EntryScope, confirm_appointment(u, kb, data))
             \/ Within(EntryScope, handle_existing_appointment(u, kb, data))

SpecEntry == Init /\ [][NextEntry]_vars

\* C15: when a user who has a scheduled appointment dated today or later
\* sends the new-booking text and start_booking takes it, the user is put
\* at HANDLING_EXISTING_APPOINTMENT, not at SELECTING_SERVICE.
C15_ExistingBlocksEntry ==
    [][ \A u \in UserIds :
          (start_booking(u) /\ DueAppointments(u, now) # {})
            => /\ u \in DOMAIN booking'
               /\ booking'[u] = HANDLING_EXISTING_APPOINTMENT ]_vars

\* C15 case: start_booking has answered a user with the service menu while
\* the table holds a scheduled appointment of that user dated tomorrow.
C15_Witness ==
    /\ last.handler = "start_booking"
    /\ last.reply = "Xizmat turini tanlang"
    /\ last.store = appointments
    /\ \E i \in DueAppointments(last.user, now) :
          CalendarLess(AddDays(StartDate, now), appointments[i].date.arg)

\* The last update was a press of "back" at the service menu or at the
\* existing-appointment menu, or a press of "cancel appointment", and its
\* callback returned without raising.
LeftBookingLast ==
    /\ ~last.raised
    /\ \/ /\ last.handler = "select_service"
          /\ last.data.tag = "back_to_main"
       \/ /\ last.handler = "handle_existing_appointment"
          /\ last.data.tag \in { "back_to_main", "cancel_appointment" }

\* C19: after such a press the booking conversation of the user has ended,
\* and the new-booking text the user sends next is taken by start_booking.
C19_BackEndsFlow ==
    LeftBookingLast
      => /\ last.user \notin DOMAIN booking
         /\ Route(last.user, Text(NEW_BOOKING)) = << "booking", "start_booking" >>

\* C19 case: after such a press the booking conversation of the user holds
\* the value MAIN_MENU as its state, and no handler takes the new-booking
\* text.
C19_Witness ==
    /\ LeftBookingLast
    /\ last.user \in DOMAIN booking
    /\ booking[last.user] = MAIN_MENU
    /\ Route(last.user, Text(NEW_BOOKING)) = << "", "" >>

\* C20: a press of "back" at CHOOSING_DATE does not raise, shows the service
\* menu and puts the user at SELECTING_SERVICE.
C20_BackToServices ==
    [][ \A u \in UserIds : \A kb \in BagToSet(keyboards[u]) :
          choose_date(u, kb, Str("back_to_services", << >>))
            => /\ ~last'.raised
               /\ last'.markup = ServiceKeyboard
               /\ u \in DOMAIN booking'
               /\ booking'[u] = SELECTING_SERVICE ]_vars

\* C20 case: the last update was a press of "back" at CHOOSING_DATE; its
\* callback raised and the user is still at CHOOSING_DATE.
C20_Witness ==
    /\ last.handler = "choose_date"
    /\ last.data = Str("back_to_services", << >>)
    /\ last.raised
    /\ last.user \in DOMAIN booking
    /\ booking[last.user] = CHOOSING_DATE

----------------------------------------------------------------------------
(* The admin and a client at the reply keyboard of the main menu: both     *)
(* send the texts of its buttons and of the admin panel's buttons.         *)

DeskScope ==
    [ users |-> { ADMIN_IDS[1], 1001 }, services |-> NumServices,
      slots |-> NumSlots, dates |-> NumDates, appointments |-> MaxAppointments,
      keyboards |-> MaxKeyboards, days |-> MaxDays,
      foreign |-> FALSE, undelivered |-> FALSE ]

NextDesk ==
    \/ \E u \in DeskScope.users : Within(DeskScope, start(u))
    \/ \E u \in DeskScope.users : Within(DeskScope, main_menu(u))
    \/ \E u \in DeskScope.users : Within(DeskScope, start_booking(u))
    \/ \E u \in DeskScope.users : Within(DeskScope, view_my_appointments(u))
    \/ \E u \in DeskScope.users : Within(DeskScope, admin_panel(u))
    \/ \E u \in DeskScope.users : \E text \in AdminTexts :
          Within(DeskScope, admin_actions(u, text))
    \/ \E u \in DeskScope.users : Within(DeskScope, cancel(u))

SpecDesk == Init /\ [][NextDesk]_vars

\* The replies that carry the admin panel or the result of an admin query.
AdminReplies == { "Admin panel", "Bugungi buyurtmalar" }

\* C16: a user who is not in ADMIN_IDS is never at ADMIN_PANEL or at one of
\* the admin view states and is never answered with the admin panel or with
\* the result of an admin query; when admin_panel takes the user's text, the
\* answer is the denial and the user is at MAIN_MENU afterwards.
C16_AdminGate ==
    \A u \in UserIds \ AdminSet :
       /\ u \in DOMAIN conv
            => conv[u] \notin
                 { ADMIN_PANEL, ADMIN_VIEW_APPOINTMENTS, ADMIN_VIEW_CLIENTS }
       /\ last.user = u
            => /\ last.reply \notin AdminReplies
               /\ last.handler # "view_appointments_by_date"
       /\ (last.user = u /\ last.handler \in { "admin_panel", "admin_actions" })
            => /\ last.reply = "Bu funksiya faqat adminlar uchun mavjud"
               /\ u \in DOMAIN conv
               /\ conv[u] = MAIN_MENU

\* C16 case: the client has sent the text of the admin panel button and
\* admin_panel has answered, while the admin is at ADMIN_PANEL.
C16_Witness ==
    /\ last.user = 1001
    /\ last.handler = "admin_panel"
    /\ last.text = ADMIN_PANEL_TEXT
    /\ ADMIN_IDS[1] \in DOMAIN conv
    /\ conv[ADMIN_IDS[1]] = ADMIN_PANEL

----------------------------------------------------------------------------
(* A client who abandoned a booking with /cancel, so that the keyboard of   *)
(* its last message is still in the chat, and has started a new booking:    *)
(* the client presses the buttons of either message in any state, while the *)
(* table holds any rows of another client.                                  *)

ForeignScope ==
    [ users |-> { 1001 }, services |-> NumServices, slots |-> NumSlots,
      dates |-> NumDates, appointments |-> ForeignRows + 1,
      keyboards |-> StaleKeyboards, days |-> 0,
      foreign |-> TRUE, undelivered |-> FALSE ]

\* The keyboard a booking abandoned at CHOOSING_DATE, CHOOSING_TIME or
\* CONFIRMING_APPOINTMENT leaves in the chat.
AbandonedKeyboards ==
    { DateKeyboard(0), TimeKeyboard(BookedTimes(Strftime(0))), ConfirmKeyboard }

InitForeign ==
    /\ \E phone_number \in { NULL, "+998901234567" } :
          users = [ u \in { 1001, 1002 } |->
                      [ UserRow(EffectiveUser(u), 0) EXCEPT
                          !.phone_number = IF u = 1001 THEN phone_number
                                           ELSE "+998901234567" ] ]
    /\ appointments \in UNION { [ 1..n -> StoredRows ] : n \in 0..ForeignRows }
    /\ conv = [ u \in { 1001, 1002 } |-> MAIN_MENU ]
    /\ booking = [ u \in { 1001 } |-> SELECTING_SERVICE ]
    /\ user_data = [ u \in UserIds |-> EmptyDict ]
    /\ \E old \in AbandonedKeyboards :
          keyboards = [ u \in UserIds |->
                          IF u = 1001
                          THEN SetToBag({ Buttons(old) })
                                 (+) SetToBag({ Buttons(ServiceKeyboard) })
                          ELSE EmptyBag ]
    /\ now = 0
    /\ poster = NewManager("main.py")
    /\ last = Outcome(1001, "start_booking", Text(NEW_BOOKING),
                      "Xizmat turini tanlang", ServiceKeyboard, << >>, FALSE)

NextForeign ==
    \/ \E u \in ForeignScope.users : \E upd \in PhoneUpdates :
          Within(ForeignScope, contact_info(u, upd))
    \/ \E u \in ForeignScope.users : \E kb \in BagToSet(keyboards[u]) :
          \E data \in Pressable(ForeignScope, u, kb) :
             \/ Within(ForeignScope, select_service(u, kb, data))
             \/ Within(ForeignScope, choose_date(u, kb, data))
             \/ Within(ForeignScope, choose_time(u, kb, data))
             \/ Within(ForeignScope, confirm_appointment(u, kb, data))

SpecForeign == InitForeign /\ [][NextForeign]_vars

\* The hours of WORKING_HOURS.
CatalogHours == { WORKING_HOURS[i] : i \in 1..Len(WORKING_HOURS) }

\* C21: a press that choose_time takes leaves both conversation states, the
\* scratch and the tables as they were when the button is that of an
\* unavailable slot; it leads to CONFIRMING_APPOINTMENT only when the button
\* is that of an available slot, and then the scratch holds the time of
\* that slot.
C21_TimeSelection ==
    [][ \A u \in UserIds : \A kb \in BagToSet(keyboards[u]) : \A data \in kb :
          choose_time(u, kb, data)
            => /\ data.tag = "unavailable"
                    => /\ conv' = conv
                       /\ booking' = booking
                       /\ user_data' = user_data
                       /\ appointments' = appointments
                       /\ users' = users
               /\ booking'[u] = CONFIRMING_APPOINTMENT
                    => /\ data.tag = "time_"
                       /\ data.arg[1] \in CatalogHours
                       /\ user_data'[u]["selected_time"] = TimeStr(data.arg[1])
      ]_vars

\* C21 case: choose_time has taken the press of a date button of the old
\* message and has led to CONFIRMING_APPOINTMENT.
C21_Witness ==
    /\ last.handler = "choose_time"
    /\ last.data.tag = "date_"
    /\ ~last.raised
    /\ booking[last.user] = CONFIRMING_APPOINTMENT

\* C26: the time of every row of the appointments table is one of the
\* slots of WORKING_HOURS.
C26_TimeIsCatalogSlot ==
    \A i \in AppointmentIds :
       appointments[i].time \in { TimeStr(h) : h \in CatalogHours }

\* C26 case: a row has been written for the client whose time is the
\* callback data of a button that is no slot button.
C26_Witness ==
    /\ Len(appointments) = Len(last.store) + 1
    /\ appointments[Len(appointments)].user_id = last.user
    /\ appointments[Len(appointments)].time.tag # "H:M"

\* C27: a step that writes an appointment row is the answer to a press of
\* the "confirm" button taken by confirm_appointment, or to a phone number
\* taken by contact_info.
C27_InsertOnlyOnConfirm ==
    [][ Len(appointments') > Len(appointments)
          => \/ last'.handler = "contact_info"
             \/ /\ last'.handler = "confirm_appointment"
                /\ last'.data = Str("confirm", << >>) ]_vars

\* C27 case: confirm_appointment has written a row in answer to a press of
\* a button of the old message that is not "confirm".
C27_Witness ==
    /\ Len(appointments) = Len(last.store) + 1
    /\ last.handler = "confirm_appointment"
    /\ last.data.tag \notin { "confirm", "cancel" }
    /\ appointments[Len(appointments)].time.tag = "H:M"

----------------------------------------------------------------------------
(* The answer to the confirmation where Telegram may fail to take the      *)
(* reply to the booker: a client at CONFIRMING_APPOINTMENT with a whole    *)
(* selection in the scratch presses the buttons and sends phone numbers.   *)

DeliveryScope ==
    [ users |-> { 1001 }, services |-> NumServices, slots |-> NumSlots,
      dates |-> RenderDates, appointments |-> ConfirmRows + 2,
      keyboards |-> MaxKeyboards, days |-> MaxDays,
      foreign |-> TRUE, undelivered |-> TRUE ]

NextDelivery ==
    \/ \E u \in DeliveryScope.users : \E kb \in BagToSet(keyboards[u]) :
          \E data \in Pressable(DeliveryScope, u, kb) :
             Within(DeliveryScope, confirm_appointment(u, kb, data))
    \/ \E u \in DeliveryScope.users : \E upd \in PhoneUpdates :
          Within(DeliveryScope, contact_info(u, upd))

SpecDelivery == InitConfirm /\ [][NextDelivery]_vars

\* C28: the one selection a client has in the scratch at
\* CONFIRMING_APPOINTMENT yields at most one row of the appointments table,
\* also when save_appointment raises after the commit.
C28_OneRowPerSelection ==
    \A u \in DeliveryScope.users :
       Cardinality({ i \in AppointmentIds : appointments[i].user_id = u }) <= 1

\* C28 case: save_appointment has written a row for a user, date and time
\* for which the table held a scheduled row already, written by a run of
\* save_appointment that raised after the commit.
C28_Witness ==
    /\ Len(appointments) = Len(last.store) + 1
    /\ \E i \in 1..Len(last.store) :
          /\ last.store[i].user_id = last.user
          /\ last.store[i].status = "scheduled"
          /\ last.store[i].date = appointments[Len(appointments)].date
          /\ last.store[i].time = appointments[Len(appointments)].time
          /\ appointments[Len(appointments)].user_id = last.user

\* C29: each of the three queries an admin sends at ADMIN_PANEL is answered
\* with its listing: the callback does not raise, the tables stay as they
\* were and the admin stays at ADMIN_PANEL.
C29_AdminQueriesAnswered ==
    [][ \A u \in AdminSet :
          \A text \in { TODAY_APPOINTMENTS, ALL_APPOINTMENTS, CLIENT_LIST } :
             admin_actions(u, text)
               => /\ ~last'.raised
                  /\ appointments' = appointments
                  /\ users' = users
                  /\ u \in DOMAIN conv'
                  /\ conv'[u] = ADMIN_PANEL ]_vars

\* C29 case: the admin has sent the text of the "all appointments" button
\* at ADMIN_PANEL, and admin_actions has raised.
C29_Witness ==
    /\ last.handler = "admin_actions"
    /\ last.user \in AdminSet
    /\ last.text = ALL_APPOINTMENTS
    /\ last.raised
    /\ conv[last.user] = ADMIN_PANEL

----------------------------------------------------------------------------
(* The listings as functions of the table: a client at MAIN_MENU asks for  *)
(* the own appointments while the table holds any rows of that client.     *)

ListingScope ==
    [ users |-> { 1002 }, services |-> NumServices, slots |-> NumSlots,
      dates |-> RenderDates, appointments |-> RenderRows,
      keyboards |-> MaxKeyboards, days |-> MaxDays,
      foreign |-> FALSE, undelivered |-> FALSE ]

InitListing ==
    /\ users = [ u \in { 1001, 1002 } |->
                   [ UserRow(EffectiveUser(u), 0) EXCEPT
                       !.phone_number = "+998901234567" ] ]
    /\ appointments \in UNION { [ 1..n -> StoredRows ] : n \in 0..RenderRows }
    /\ conv = [ u \in { 1001, 1002 } |-> MAIN_MENU ]
    /\ booking = EmptyDict
    /\ user_data = [ u \in UserIds |-> EmptyDict ]
    /\ keyboards = [ u \in UserIds |-> EmptyBag ]
    /\ now = 0
    /\ poster = NewManager("main.py")
    /\ last = Outcome(1002, "start", Command("start"), "Assalomu alaykum",
                      NoMarkup, << >>, FALSE)

NextListing ==
    \E u \in ListingScope.users : Within(ListingScope, view_my_appointments(u))

SpecListing == InitListing /\ [][NextListing]_vars

\* Row i of the table is earlier than row j by calendar date and then time.
CalendarBefore(i, j) ==
    \/ CalendarLess(appointments[i].date.arg, appointments[j].date.arg)
    \/ /\ appointments[i].date = appointments[j].date
       /\ appointments[i].time.arg[1] < appointments[j].time.arg[1]

\* The listing has the later of any two of its rows first.
LatestFirst(listing) ==
    \A a, b \in 1..Len(listing) : a < b => ~CalendarBefore(listing[a], listing[b])

\* C30: the listing that view_my_appointments has answered with holds the
\* rows of the user, at most MY_LIMIT of them, the latest by calendar date
\* and time first; every listing the query of view_all_appointments returns
\* for the table holds at most ALL_LIMIT rows, the latest first.
C30_ListingsLatestFirst ==
    /\ last.handler = "view_my_appointments"
         => /\ LatestFirst(last.listing)
            /\ Len(last.listing) <= MY_LIMIT
            /\ \A a \in 1..Len(last.listing) :
                  appointments[last.listing[a]].user_id = last.user
    /\ \A listing \in AllAppointments :
          /\ LatestFirst(listing)
          /\ Len(listing) <= ALL_LIMIT

\* C30 case: view_my_appointments has listed an appointment of 30.06.2025
\* before one of 01.07.2025.
C30_Witness ==
    /\ last.handler = "view_my_appointments"
    /\ Len(last.listing) = 2
    /\ CalendarLess(appointments[last.listing[1]].date.arg,
                    appointments[last.listing[2]].date.arg)

----------------------------------------------------------------------------
(* A canceled appointment frees its slot. Checked under SpecRace, where one *)
(* client books and cancels and the other asks for the same date.           *)

\* The table `store` holds a canceled row for the slot.
CanceledAt(store, date, time) ==
    \E i \in 1..Len(store) :
       /\ store[i].status = "canceled"
       /\ store[i].date = date
       /\ store[i].time = time

\* C31: a time keyboard rendered for a date shows as available, with the
\* callback data that books it, every slot for which the table holds
\* canceled rows and no scheduled row; a canceled row never makes a slot
\* appear booked.
C31_CancelFreesSlot ==
    RenderedLast =>
      LET date == Str("d.m.Y", last.data.arg)
          shown == Flatten(last.markup)
      IN \A h \in CatalogHours :
            ( /\ CanceledAt(last.store, date, TimeStr(h))
              /\ ~ScheduledAt(last.store, date, TimeStr(h)) )
            => /\ \E k \in 1..Len(shown) :
                     /\ shown[k].text = << "available", h >>
                     /\ shown[k].callback_data = Str("time_", << h >>)
               /\ \A k \in 1..Len(shown) :
                     shown[k].text # << "unavailable", h >>

\* C31 case: the time keyboard was rendered for a date on which the only
\* row of a slot is the canceled appointment of another client.
C31_Witness ==
    /\ RenderedLast
    /\ \E i \in 1..Len(last.store) :
          /\ last.store[i].status = "canceled"
          /\ last.store[i].user_id # last.user
          /\ last.store[i].date = Str("d.m.Y", last.data.arg)
          /\ ~ScheduledAt(last.store, last.store[i].date, last.store[i].time)

----------------------------------------------------------------------------
(* Two clients with appointments in the table who look at their existing    *)
(* appointments, abandon the conversation with /cancel and come back, so    *)
(* that the messages of the earlier conversation are still in the chat and  *)
(* their buttons are pressed in any state.                                  *)

OwnerScope ==
    [ users |-> { 1001, 1002 }, services |-> NumServices, slots |-> NumSlots,
      dates |-> NumDates, appointments |-> OwnerRows,
      keyboards |-> StaleKeyboards, days |-> 0,
      foreign |-> TRUE, undelivered |-> FALSE ]

\* Rows that save_appointment has written for the two clients, canceled or
\* not.
OwnedRows ==
    { [ AppointmentRow(u, ServiceType[1], SERVICE_PRICES[ServiceType[1]],
                       Strftime(0), TimeStr(WORKING_HOURS[1])) EXCEPT !.status = st ] :
        u \in { 1001, 1002 }, st \in { "scheduled", "canceled" } }

InitOwner ==
    /\ users = [ u \in { 1001, 1002 } |->
                   [ UserRow(EffectiveUser(u), 0) EXCEPT
                       !.phone_number = "+998901234567" ] ]
    /\ appointments \in UNION { [ 1..n -> OwnedRows ] : n \in 0..OwnerRows }
    /\ conv = [ u \in { 1001, 1002 } |-> MAIN_MENU ]
    /\ booking = EmptyDict
    /\ user_data = [ u \in UserIds |-> EmptyDict ]
    /\ keyboards = [ u \in UserIds |-> EmptyBag ]
    /\ now = 0
    /\ poster = NewManager("main.py")
    /\ last = Outcome(0, "", Command(""), "", NoMarkup, << >>, FALSE)

NextOwner ==
    \/ \E u \in OwnerScope.users : Within(OwnerScope, start_booking(u))
    \/ \E u \in OwnerScope.users : Within(OwnerScope, cancel(u))
    \/ \E u \in OwnerScope.users : \E kb \in BagToSet(keyboards[u]) :
          \E data \in Pressable(OwnerScope, u, kb) :
             Within(OwnerScope, handle_existing_appointment(u, kb, data))

SpecOwner == InitOwner /\ [][NextOwner]_vars

\* C32: a step changes the status of a row only if it is the press of
\* "cancel appointment" by the owner of the row, and the row is the one the
\* scratch of that user names; the scratch of a user comes to name a row
\* only by the step that shows that row to the user in the view of the
\* existing appointment, and every step that shows the view makes the
\* scratch name the row shown. So a cancellation changes the appointment
\* last shown to the acting user, whichever "cancel appointment" button is
\* pressed, and never a row of another user.
C32_CancelOwnAppointment ==
    [][ /\ \A i \in AppointmentIds :
              ( /\ i \in DOMAIN appointments'
                /\ appointments'[i].status # appointments[i].status )
              => /\ last'.user = appointments[i].user_id
                 /\ last'.handler = "handle_existing_appointment"
                 /\ last'.data = Str("cancel_appointment", << >>)
                 /\ At(user_data[last'.user], "editing_appointment_id") = << i >>
                 /\ \A j \in AppointmentIds \ { i } :
                       appointments'[j] = appointments[j]
        /\ \A u \in UserIds :
              ( /\ At(user_data'[u], "editing_appointment_id")
                     # At(user_data[u], "editing_appointment_id")
                /\ At(user_data'[u], "editing_appointment_id") # << >> )
              => /\ last'.user = u
                 /\ last'.handler = "handle_existing_appointment"
                 /\ last'.markup = ViewKeyboard
                 /\ last'.data = Str("edit_appointment_",
                                     At(user_data'[u], "editing_appointment_id"))
        /\ \A u \in UserIds : \A kb \in BagToSet(keyboards[u]) : \A data \in kb :
              ( /\ handle_existing_appointment(u, kb, data)
                /\ last'.markup = ViewKeyboard )
              => /\ data.tag = "edit_appointment_"
                 /\ At(user_data'[u], "editing_appointment_id") = data.arg
                 /\ appointments[data.arg[1]].user_id = u
      ]_vars

\* C32 case: a client with two messages showing "cancel appointment" in the
\* chat, one of them of a conversation abandoned earlier, has pressed the
\* button and a row of theirs went from scheduled to canceled, while the
\* table holds a scheduled row of the other client.
C32_Witness ==
    /\ last.handler = "handle_existing_appointment"
    /\ last.data = Str("cancel_appointment", << >>)
    /\ Buttons(ViewKeyboard) \in BagToSet(keyboards[last.user])
    /\ \E i \in AppointmentIds :
          /\ last.store[i].status = "scheduled"
          /\ appointments[i].status = "canceled"
          /\ appointments[i].user_id = last.user
    /\ \E j \in AppointmentIds :
          /\ appointments[j].status = "scheduled"
          /\ appointments[j].user_id # last.user

----------------------------------------------------------------------------
(* The channel posters: AutomatedChannelManager.  The script has one        *)
(* thread: main() schedules the job and run_scheduler runs it every six     *)
(* hours.  A call of post_daily_update is three steps of that thread: the   *)
(* guard, the return of Gemini and the return of Telegram.                  *)

\* The variables of the bot, which a poster leaves alone.
bot == << users, appointments, conv, booking, user_data, keyboards, now, last >>

\* The texts Gemini returns: two with the same key points, one without key
\* points and without a quiz topic, and one with the digest of the first.
Contents ==
    { Content(1, << Sentence(1, TRUE, 5), Sentence(2, FALSE, 12) >>, "verbs"),
      Content(2, << Sentence(1, TRUE, 5), Sentence(2, FALSE, 12),
                    Sentence(3, FALSE, 5) >>, "verbs"),
      Content(3, << Sentence(3, FALSE, 5) >>, ""),
      Content(HashSpace + 1, << Sentence(4, TRUE, 8) >>, "colors") }

\* What generate_daily_post gives back: a dict with a text, a dict with ""
\* as text (generate_content failed), or an exception.
PostData ==
    { [ kind |-> "content", content |-> c ] : c \in Contents }
      \cup { [ kind |-> k, content |-> NoContent ] : k \in { "empty", "raise" } }

\* What send_text_message gives back: the message, {} or an exception.
SendResults == { "message", "failed", "raise" }

\* Mutant of Release: the flag is left as it is.
ReleaseKeepingFlag(manager) ==
    [ manager EXCEPT !.active = @ - 1, !.pc = "run_scheduler" ]

\* finally: self.is_posting = False, and back to the scheduler loop.
Release(manager) ==
    [ manager EXCEPT !.is_posting = FALSE, !.active = @ - 1,
                     !.pc = "run_scheduler" ]

\* post_daily_update up to the call of Gemini: the guard and the flag.
post_daily_update(manager, caller, topic) ==
    IF manager.is_posting
    THEN [ manager EXCEPT !.returned = "False", !.caller = caller,
                          !.logged = "Already generating a post",
                          !.pc = "run_scheduler" ]
    ELSE [ manager EXCEPT !.is_posting = TRUE, !.active = @ + 1,
                          !.pc = "generate_daily_post", !.caller = caller,
                          !.topic = topic, !.content = NoContent,
                          !.logged = "Generating daily post",
                          !.returned = "None" ]

\* main(): maxpy.py posts a quiz as a test before it schedules the job.
main ==
    /\ poster.pc = "main"
    /\ poster' = IF poster.script = "maxpy.py"
                 THEN post_daily_update(poster, "main", QUIZ)
                 ELSE [ poster EXCEPT !.pc = "run_scheduler" ]
    /\ UNCHANGED bot

\* The job of schedule_daily_posts, run by run_scheduler.
post_with_smart_topic_selection(selected_topic) ==
    /\ poster.pc = "run_scheduler"
    /\ Len(poster.channel) < MaxPosts
    /\ IF poster.is_posting
       THEN poster' = [ poster EXCEPT !.returned = "None", !.caller = "schedule",
                                      !.logged = "Post generation already in progress" ]
       ELSE LET least_used ==
                  get_least_used_topics(poster.memory, english_topics, LEAST_USED)
            IN /\ selected_topic \in IF least_used # << >> THEN Range(least_used)
                                     ELSE Range(english_topics)
               /\ poster' = post_daily_update(poster, "schedule", selected_topic)
    /\ UNCHANGED bot

\* post_daily_update from the return of generate_daily_post to the call of
\* Telegram.
generate_daily_post(post_data) ==
    /\ poster.pc = "generate_daily_post"
    /\ poster' =
         IF post_data.kind = "raise"
         THEN [ Release(poster) EXCEPT !.returned = "False",
                                       !.logged = "Error in post_daily_update" ]
         ELSE IF post_data.kind = "empty"
         THEN [ Release(poster) EXCEPT !.returned = "False",
                                       !.logged = "Failed to generate content" ]
         ELSE IF is_content_duplicate(poster.memory, post_data.content)
         THEN [ Release(poster) EXCEPT !.returned = "False",
                                       !.logged = "Generated duplicate content",
                                       !.content = post_data.content ]
         ELSE [ poster EXCEPT !.pc = "send_text_message",
                              !.content = post_data.content ]
    /\ UNCHANGED bot

\* The topic the post is recorded under: main.py records a quiz under its
\* quiz topic.
MemoryTopic(manager) ==
    IF /\ manager.script = "main.py"
       /\ manager.topic = QUIZ
       /\ manager.content.quiz_topic # ""
    THEN Str("Quiz: ", << manager.content.quiz_topic >>)
    ELSE manager.topic

\* post_daily_update from the return of send_text_message to its end.
send_text_message(result) ==
    /\ poster.pc = "send_text_message"
    /\ poster' =
         IF result = "message"
         THEN [ Release(poster) EXCEPT
                  !.channel = Append(@, poster.content),
                  !.memory = record_post(@, MemoryTopic(poster), poster.content),
                  !.logged = "Daily post sent successfully",
                  !.returned = "True" ]
         ELSE [ Release(poster) EXCEPT
                  !.logged = IF result = "failed" THEN "Failed to send daily post"
                             ELSE "Error in post_daily_update",
                  !.returned = "False" ]
    /\ UNCHANGED bot

InitPoster ==
    /\ users = EmptyDict
    /\ appointments = << >>
    /\ conv = EmptyDict
    /\ booking = EmptyDict
    /\ user_data = [ u \in UserIds |-> EmptyDict ]
    /\ keyboards = [ u \in UserIds |-> EmptyBag ]
    /\ now = 0
    /\ last = Outcome(0, "", Command(""), "", NoMarkup, << >>, FALSE)
    /\ \E script \in { "main.py", "maxpy.py" } : poster = NewManager(script)

NextPoster ==
    \/ main
    \/ \E selected_topic \in Range(english_topics) :
          post_with_smart_topic_selection(selected_topic)
    \/ \E post_data \in PostData : generate_daily_post(post_data)
    \/ \E result \in SendResults : send_text_message(result)

SpecPoster == InitPoster /\ [][NextPoster]_vars

\* C33: a text is added to the channel only by the step that sends it, and
\* then its digest is not in content_hashes; when the digest of the text
\* that Gemini returned is in content_hashes, post_daily_update returns False
\* with the history and the channel as they were.
C33_DuplicateNotPosted ==
    [][ /\ poster'.channel # poster.channel
          => /\ poster.pc = "send_text_message"
             /\ poster'.channel = Append(poster.channel, poster.content)
             /\ Md5(poster.content) \notin Range(poster.memory.content_hashes)
        /\ \A post_data \in PostData :
              ( /\ generate_daily_post(post_data)
                /\ post_data.kind = "content"
                /\ Md5(post_data.content) \in Range(poster.memory.content_hashes) )
              => /\ poster'.returned = "False"
                 /\ poster'.memory = poster.memory
                 /\ poster'.channel = poster.channel
                 /\ poster'.pc = "run_scheduler"
      ]_vars

\* C33 case: post_daily_update has returned False for a text that was never
\* sent and whose digest is in content_hashes.
C33_Witness ==
    /\ poster.pc = "run_scheduler"
    /\ poster.returned = "False"
    /\ poster.content \in Contents
    /\ poster.content \notin Range(poster.channel)
    /\ Md5(poster.content) \in Range(poster.memory.content_hashes)

\* C34: a text is not sent to the channel when is_content_similar holds of
\* it and the topic of the post, that is, when its key points overlap by
\* more than 30% with those of a recorded post of that topic.
C34_SimilarNotPosted ==
    [][ poster'.channel # poster.channel
          => ~is_content_similar(poster.memory, MemoryTopic(poster), poster.content)
      ]_vars

\* C34 case: the post recorded last has another digest than an earlier post
\* of the same topic and the same key points, which are not empty.
C34_Witness ==
    /\ poster.returned = "True"
    /\ LET posts == poster.memory.detailed_posts IN
       \E i \in 1..(Len(posts) - 1) :
          /\ posts[i].topic = posts[Len(posts)].topic
          /\ posts[i].content_hash # posts[Len(posts)].content_hash
          /\ posts[i].key_points # << >>
          /\ Range(posts[i].key_points) = Range(posts[Len(posts)].key_points)

\* The messages post_daily_update logs on its ways out.
ExitLogs ==
    { "Failed to generate content", "Generated duplicate content",
      "Daily post sent successfully", "Failed to send daily post",
      "Error in post_daily_update" }

C36_HistoryFollowsChannel ==
    [][ /\ poster'.memory # poster.memory <=> poster'.channel # poster.channel
        /\ ( /\ poster.pc = "send_text_message"
             /\ poster'.returned = "True" )
           => /\ poster'.channel # poster.channel
              /\ UsageCount(poster'.memory, poster.topic)
                   = UsageCount(poster.memory, poster.topic) + 1
        /\ ( /\ poster.is_posting
             /\ poster'.returned = "False" )
           => poster'.memory = poster.memory
      ]_vars

\* C36 case: main.py has sent a quiz, post_daily_update has returned True,
\* and the usage count of "Quiz" is 0.
C36_Witness ==
    /\ poster.script = "main.py"
    /\ poster.returned = "True"
    /\ poster.topic = QUIZ
    /\ Len(poster.channel) > 0
    /\ poster.channel[Len(poster.channel)] = poster.content
    /\ UsageCount(poster.memory, QUIZ) = 0
    /\ Str("Quiz: ", << poster.content.quiz_topic >>) \in DOMAIN poster.memory.topics

\* The topics of english_topics that fewer than LEAST_USED others precede,
\* a topic preceding another when its usage count in the history is lower,
\* or the same and it comes earlier in the list.
LeastUsedTopics(post_history) ==
    { english_topics[i] : i \in
        { k \in 1..NumTopics :
            Cardinality({ j \in 1..NumTopics :
               \/ UsageCount(post_history, english_topics[j])
                    < UsageCount(post_history, english_topics[k])
               \/ /\ UsageCount(post_history, english_topics[j])
                       = UsageCount(post_history, english_topics[k])
                  /\ j < k }) < LEAST_USED } }

----------------------------------------------------------------------------
(* PostMemory.record_post on a history that is close to its limits: a      *)
(* script started on the history file of earlier runs, and record_post      *)
(* called with any topic and text, also one whose digest is recorded.       *)

\* The history file after n posts of n different texts, the i-th with the
\* digest i and one key point, on the first two topics in turn: what n calls
\* of record_post leave.
Recorded(n) ==
    LET TopicOf(i) == english_topics[1 + (i % 2)]
        KeyPoints(i) == << Sentence(i, TRUE, 5) >>
        PostsOn(topic) ==
            SelectSeq([ i \in 1..n |-> i ], LAMBDA i : TopicOf(i) = topic)
        Used == { TopicOf(i) : i \in 1..n }
    IN [ topics |->
           [ topic \in Used |-> [ count |-> Len(PostsOn(topic)) ] ],
         content_hashes |-> LastN([ i \in 1..n |-> i ], HASH_LIMIT),
         quiz_topics |-> << >>,
         detailed_posts |->
           LastN([ i \in 1..n |->
                     [ topic |-> TopicOf(i), content_hash |-> i,
                       key_points |-> KeyPoints(i) ] ], POSTS_LIMIT),
         topic_content |->
           [ topic \in Used |->
               LastN([ k \in 1..Len(PostsOn(topic)) |->
                         KeyPoints(PostsOn(topic)[k]) ], POINTS_LIMIT) ] ]

\* Texts passed to record_post: new ones with a key point, one without key
\* points, one that was recorded before and one with the digest of a
\* recorded one.
MemoryContents ==
    { Content(HASH_LIMIT + i, << Sentence(HASH_LIMIT + i, TRUE, 5) >>, "") :
        i \in 1..(NearFull + 1) }
      \cup { Content(HASH_LIMIT + NearFull + 2, << Sentence(0, FALSE, 5) >>, ""),
             Content(HASH_LIMIT - NearFull, << Sentence(HASH_LIMIT - NearFull, TRUE, 5) >>, ""),
             Content(HashSpace + HASH_LIMIT - NearFull, << Sentence(0, TRUE, 5) >>, "") }

\* The number of posts recorded in a history.
TotalCount(post_history) ==
    LET RECURSIVE Sum(_)
        Sum(S) == IF S = {} THEN 0
                  ELSE LET t == CHOOSE x \in S : TRUE
                       IN post_history.topics[t]["count"] + Sum(S \ {t})
    IN Sum(DOMAIN post_history.topics)

\* self.memory.record_post(topic, content)
call_record_post(topic, content) ==
    /\ TotalCount(poster.memory) < HASH_LIMIT + NearFull
    /\ poster' = [ poster EXCEPT !.memory = record_post(@, topic, content) ]
    /\ UNCHANGED bot

InitMemory ==
    /\ users = EmptyDict
    /\ appointments = << >>
    /\ conv = EmptyDict
    /\ booking = EmptyDict
    /\ user_data = [ u \in UserIds |-> EmptyDict ]
    /\ keyboards = [ u \in UserIds |-> EmptyBag ]
    /\ now = 0
    /\ last = Outcome(0, "", Command(""), "", NoMarkup, << >>, FALSE)
    /\ \E n \in (HASH_LIMIT - NearFull)..HASH_LIMIT :
          poster = [ NewManager("main.py") EXCEPT !.memory = Recorded(n),
                                                  !.pc = "run_scheduler" ]

NextMemory ==
    \E topic \in { english_topics[1], QUIZ } : \E content \in MemoryContents :
       call_record_post(topic, content)

SpecMemory == InitMemory /\ [][NextMemory]_vars

\* The list `new` is the list `old` with one entry added at its end, cut to
\* its last `limit` entries.
KeepsLatest(old, new, limit) ==
    /\ new # << >>
    /\ LET all == Append(old, new[Len(new)]) IN
       /\ Len(new) = IF Len(all) > limit THEN limit ELSE Len(all)
       /\ \A i \in 1..Len(new) : new[i] = all[Len(all) - Len(new) + i]

\* C38: after a call of record_post content_hashes has at most 100 entries
\* and no entry twice, detailed_posts has at most 30 entries and the list of
\* key points of every topic has at most 10; the call adds the post at the
\* end of detailed_posts, its digest at the end of content_hashes unless the
\* digest is there already, and its key points, if it has any, at the end
\* of the list of its topic, and what is dropped from a list is dropped from
\* its front, so that each list holds its latest entries in the order in
\* which they were recorded.
C38_HistoryBounded ==
    [][ LET old == poster.memory
            new == poster'.memory
            post == new.detailed_posts[Len(new.detailed_posts)]
            At_(dict, key) == IF key \in DOMAIN dict THEN dict[key] ELSE << >>
        IN new # old =>
           /\ Len(new.content_hashes) <= 100
           /\ \A i, j \in 1..Len(new.content_hashes) :
                 new.content_hashes[i] = new.content_hashes[j] => i = j
           /\ Len(new.detailed_posts) <= 30
           /\ \A topic \in DOMAIN new.topic_content :
                 Len(new.topic_content[topic]) <= 10
           /\ KeepsLatest(old.detailed_posts, new.detailed_posts, 30)
           /\ IF \E i \in 1..Len(old.content_hashes) :
                    old.content_hashes[i] = post.content_hash
              THEN new.content_hashes = old.content_hashes
              ELSE /\ KeepsLatest(old.content_hashes, new.content_hashes, 100)
                   /\ new.content_hashes[Len(new.content_hashes)] = post.content_hash
           /\ \A topic \in DOMAIN new.topic_content :
                 IF topic = post.topic /\ post.key_points # << >>
                 THEN /\ KeepsLatest(At_(old.topic_content, topic),
                                     new.topic_content[topic], 10)
                      /\ new.topic_content[topic][Len(new.topic_content[topic])]
                           = post.key_points
                 ELSE /\ topic \in DOMAIN old.topic_content
                      /\ new.topic_content[topic] = old.topic_content[topic]
      ]_vars

\* C38 case: the three lists are full, content_hashes has lost its oldest
\* entries and the digest recorded last is at its end.
C38_Witness ==
    LET memory == poster.memory IN
    /\ Len(memory.content_hashes) = 100
    /\ memory.content_hashes[1] > 2
    /\ Len(memory.detailed_posts) = 30
    /\ memory.detailed_posts[30].content_hash = memory.content_hashes[100]
    /\ memory.detailed_posts[30].content_hash > 100
    /\ \E topic \in DOMAIN memory.topic_content :
          Len(memory.topic_content[topic]) = 10

====
